---- MODULE Spec2Model ----
(***************************************************************************)
(* fuels-rs: resolution of ABI type applications into a concrete type      *)
(* tree (Type::resolve), derivation of the encoding descriptor             *)
(* (ParamType::try_from) and the rendered-type resolver of the code        *)
(* generator (TypeResolver::resolve).                                      *)
(*                                                                         *)
(* Descriptor strings (type_field) are sequences of one-character strings, *)
(* so that prefix tests and the descriptor patterns are computed on the    *)
(* characters.  Type ids and component names are plain strings: the code   *)
(* only compares and copies them.                                          *)
(***************************************************************************)
EXTENDS Integers, Sequences, FiniteSets, TLC

(***************************************************************************)
(* Bounds of the model.                                                    *)
(***************************************************************************)
\* number of nested generic declarations in a chain of the type table
MaxChain == 3
\* recursion budget of resolve; beyond it the call is a stack overflow
MaxDepth == 8
\* longest components or generics list of a hand-built Type
MaxComponents == 2
\* number of declarations handed to generate_types
MaxTypes == 2

(***************************************************************************)
(* Descriptor strings that occur in the code and its tests.                *)
(***************************************************************************)
TF_unit == <<"(", ")">>
TF_bool == <<"b", "o", "o", "l">>
TF_u8 == <<"u", "8">>
TF_u16 == <<"u", "1", "6">>
TF_u32 == <<"u", "3", "2">>
TF_u64 == <<"u", "6", "4">>
TF_u256 == <<"u", "2", "5", "6">>
TF_b256 == <<"b", "2", "5", "6">>
TF_str == <<"s", "t", "r">>
TF_str_2 == <<"s", "t", "r", "[", "2", "]">>
TF_array_2 == <<"[", "_", ";", " ", "2", "]">>
TF_tuple == <<"(", "_", ",", " ", "_", ")">>
TF_generic_T == <<"g", "e", "n", "e", "r", "i", "c", " ", "T">>
TF_generic_K == <<"g", "e", "n", "e", "r", "i", "c", " ", "K">>
TF_raw_untyped_slice == <<"r", "a", "w", " ", "u", "n", "t", "y", "p", "e", "d", " ", "s", "l", "i", "c", "e">>
TF_raw_untyped_ptr == <<"r", "a", "w", " ", "u", "n", "t", "y", "p", "e", "d", " ", "p", "t", "r">>
TF_struct_std_vec_Vec == <<"s", "t", "r", "u", "c", "t", " ", "s", "t", "d", ":", ":", "v", "e", "c", ":", ":", "V", "e", "c">>
TF_struct_Vec == <<"s", "t", "r", "u", "c", "t", " ", "V", "e", "c">>
TF_struct_std_bytes_Bytes == <<"s", "t", "r", "u", "c", "t", " ", "s", "t", "d", ":", ":", "b", "y", "t", "e", "s", ":", ":", "B", "y", "t", "e", "s">>
TF_struct_Bytes == <<"s", "t", "r", "u", "c", "t", " ", "B", "y", "t", "e", "s">>
TF_struct_std_string_String == <<"s", "t", "r", "u", "c", "t", " ", "s", "t", "d", ":", ":", "s", "t", "r", "i", "n", "g", ":", ":", "S", "t", "r", "i", "n", "g">>
TF_struct_String == <<"s", "t", "r", "u", "c", "t", " ", "S", "t", "r", "i", "n", "g">>
TF_struct_std_u128_U128 == <<"s", "t", "r", "u", "c", "t", " ", "s", "t", "d", ":", ":", "u", "1", "2", "8", ":", ":", "U", "1", "2", "8">>
TF_struct_U128 == <<"s", "t", "r", "u", "c", "t", " ", "U", "1", "2", "8">>
TF_struct_SomeStruct == <<"s", "t", "r", "u", "c", "t", " ", "S", "o", "m", "e", "S", "t", "r", "u", "c", "t">>
TF_enum_SomeEnum == <<"e", "n", "u", "m", " ", "S", "o", "m", "e", "E", "n", "u", "m">>
PFX_struct == <<"s", "t", "r", "u", "c", "t", " ">>
PFX_enum == <<"e", "n", "u", "m", " ">>
PFX_generic == <<"g", "e", "n", "e", "r", "i", "c">>
PFX_str == <<"s", "t", "r">>

(***************************************************************************)
(* String operations of the standard library and the descriptor patterns   *)
(* of fuel_abi_types::utils, computed on the characters.                   *)
(***************************************************************************)
starts_with(s, prefix) ==
    /\ Len(s) >= Len(prefix)
    /\ SubSeq(s, 1, Len(prefix)) = prefix

ends_with(s, suffix) ==
    /\ Len(s) >= Len(suffix)
    /\ SubSeq(s, Len(s) - Len(suffix) + 1, Len(s)) = suffix

strip_prefix(s, prefix) == SubSeq(s, Len(prefix) + 1, Len(s))

\* the class \s of the patterns
IsWhitespace(c) == c \in {" ", "\t", "\n", "\r"}

\* the class \d of the patterns
Digits == <<"0", "1", "2", "3", "4", "5", "6", "7", "8", "9">>

IsDigit(c) == \E d \in 1..Len(Digits) : Digits[d] = c

DigitValue(c) == (CHOOSE d \in 1..Len(Digits) : Digits[d] = c) - 1

RECURSIVE TrimStart(_)
TrimStart(s) ==
    IF s # <<>> /\ IsWhitespace(Head(s)) THEN TrimStart(Tail(s)) ELSE s

RECURSIVE TrimEnd(_)
TrimEnd(s) ==
    IF s # <<>> /\ IsWhitespace(s[Len(s)])
    THEN TrimEnd(SubSeq(s, 1, Len(s) - 1))
    ELSE s

Trim(s) == TrimEnd(TrimStart(s))

\* (\d+): a non-empty run of digits
IsNumber(s) == s # <<>> /\ \A i \in 1..Len(s) : IsDigit(s[i])

\* str::parse::<usize>
RECURSIVE ParseNumber(_)
ParseNumber(s) ==
    IF s = <<>> THEN 0
    ELSE 10 * ParseNumber(SubSeq(s, 1, Len(s) - 1)) + DigitValue(s[Len(s)])

\* ^\s*generic\s+(\S+)\s*$ : <<name>> when the descriptor matches, else <<>>
extract_generic_name(type_field) ==
    LET t == Trim(type_field)
        rest == strip_prefix(t, PFX_generic)
        name == TrimStart(rest)
    IN  IF /\ starts_with(t, PFX_generic)
           /\ rest # <<>>
           /\ IsWhitespace(Head(rest))
           /\ name # <<>>
           /\ \A i \in 1..Len(name) : ~IsWhitespace(name[i])
        THEN <<name>>
        ELSE <<>>

\* ^\s*\[.+;\s*(\d+)\s*\]\s*$ : <<len>> when the descriptor matches, else <<>>
extract_array_len(type_field) ==
    LET t == Trim(type_field)
        inner == SubSeq(t, 2, Len(t) - 1)
        Cuts == {k \in 2..Len(inner) :
                    /\ inner[k] = ";"
                    /\ \A j \in 1..(k - 1) : inner[j] # "\n"
                    /\ IsNumber(Trim(SubSeq(inner, k + 1, Len(inner))))}
    IN  IF /\ Len(t) >= 2
           /\ t[1] = "["
           /\ t[Len(t)] = "]"
           /\ Cuts # {}
        THEN LET k == CHOOSE c \in Cuts : TRUE
             IN  <<ParseNumber(Trim(SubSeq(inner, k + 1, Len(inner))))>>
        ELSE <<>>

\* ^\s*str\s*\[\s*(\d+)\s*\]\s*$ : <<len>> when the descriptor matches, else <<>>
extract_str_len(type_field) ==
    LET t == Trim(type_field)
        rest == TrimStart(strip_prefix(t, PFX_str))
        inner == Trim(SubSeq(rest, 2, Len(rest) - 1))
    IN  IF /\ starts_with(t, PFX_str)
           /\ Len(rest) >= 2
           /\ rest[1] = "["
           /\ rest[Len(rest)] = "]"
           /\ IsNumber(inner)
        THEN <<ParseNumber(inner)>>
        ELSE <<>>

has_tuple_format(type_field) ==
    /\ starts_with(type_field, <<"(">>)
    /\ ends_with(type_field, <<")">>)

(***************************************************************************)
(* Result<T>: Ok(v) carries the value, Err(kind, id) the error.  The kinds *)
(* are "lookup" (type id not found in type lookup), "generic" (type id not *)
(* found in parent's generic parameters), "overflow" (the recursion did    *)
(* not return), and for the derivation "array", "vector", "enum" and       *)
(* "unrecognised".  Option<T> is a sequence of length 0 or 1.              *)
(***************************************************************************)
Ok(v) == [ok |-> TRUE, val |-> <<v>>, kind |-> "", id |-> ""]

Err(kind, id) == [ok |-> FALSE, val |-> <<>>, kind |-> kind, id |-> id]

Unwrap(r) == r.val[1]

None == <<>>

Some(v) == <<v>>

(***************************************************************************)
(* The ABI's records.  An absent Option<Vec<_>> (components,               *)
(* type_arguments, type_parameters) is the empty sequence: the code reads  *)
(* all three through iter().flatten() or `Some(params) if                  *)
(* !params.is_empty()`, which treat None and Some(vec![]) alike.           *)
(***************************************************************************)
TypeApplication(name, type_id, type_arguments) ==
    [name |-> name, type_id |-> type_id, type_arguments |-> type_arguments]

TypeDeclaration(type_field, components, type_parameters) ==
    [type_field |-> type_field,
     components |-> components,
     type_parameters |-> type_parameters]

\* struct Type
Type(name, type_field, generic_params, components) ==
    [name |-> name,
     type_field |-> type_field,
     generic_params |-> generic_params,
     components |-> components]

(***************************************************************************)
(* Type::resolve and Type::determine_generics_for_type.                    *)
(***************************************************************************)
\* find that takes the first inherited parameter whatever its id
find_generic_ignoring_id(parent_generic_params, type_id) ==
    IF parent_generic_params = <<>> THEN None ELSE Some(parent_generic_params[1])

\* find that falls back on the first inherited parameter
find_generic_or_first(parent_generic_params, type_id) ==
    LET found == {i \in 1..Len(parent_generic_params) :
                      parent_generic_params[i][1] = type_id}
    IN  IF found # {}
        THEN Some(parent_generic_params[CHOOSE i \in found : \A j \in found : i <= j])
        ELSE IF parent_generic_params = <<>> THEN None
        ELSE Some(parent_generic_params[1])

\* parent_generic_params.iter().find(|(id, _)| *id == type_application.type_id)
find_generic(parent_generic_params, type_id) ==
    LET Hits == {i \in 1..Len(parent_generic_params) :
                    parent_generic_params[i][1] = type_id}
    IN  IF Hits = {} THEN None
        ELSE Some(parent_generic_params[CHOOSE i \in Hits : \A j \in Hits : i <= j])

\* Self { name: type_application.name.clone(), ..generic_type.clone() }
inherit_name(type_application, generic_type) ==
    [generic_type EXCEPT !.name = type_application.name]

\* .map(|(_, ty)| ty).collect()
\* the inherited types, last first
binding_types_reversed(generic_params) ==
    [i \in 1..Len(generic_params) |->
        generic_params[Len(generic_params) + 1 - i][2]]

\* .iter().map(|(_, ty)| ty).cloned().collect()
binding_types(generic_params) ==
    [i \in 1..Len(generic_params) |-> generic_params[i][2]]

\* the inherited types even when the application has type arguments
generics_to_use_inherited(generic_params_from_current_type, parent_generic_params) ==
    binding_types(parent_generic_params)

\* the type arguments of the application when there are any, else the
\* types inherited from the enclosing type
generics_to_use(generic_params_from_current_type, parent_generic_params) ==
    IF generic_params_from_current_type # <<>>
    THEN generic_params_from_current_type
    ELSE binding_types(parent_generic_params)

\* a zip that pairs nothing unless the two are equally long
zip_exact(params, generics) ==
    IF Len(params) # Len(generics) THEN <<>>
    ELSE [i \in 1..Len(params) |-> <<params[i], generics[i]>>]

\* std::iter::zip: stops at the shorter of the two
zip(params, generics) ==
    LET n == IF Len(params) <= Len(generics) THEN Len(params) ELSE Len(generics)
    IN  [i \in 1..n |-> <<params[i], generics[i]>>]

\* a Type that drops what determine_generics_for_type found
resolved_type_without_generics(type_application, type_declaration, components, generic_params_lookup) ==
    Type(type_application.name, type_declaration.type_field, <<>>, components)

\* Ok(Type { name, type_field, components, generic_params })
resolved_type(type_application, type_declaration, components, generic_params_lookup) ==
    Type(type_application.name,
         type_declaration.type_field,
         binding_types(generic_params_lookup),
         components)

\* a lookup that answers the unit type for an id it does not hold
get_declaration_or_unit(types, type_id) ==
    IF type_id \in DOMAIN types THEN Some(types[type_id])
    ELSE Some(TypeDeclaration(TF_unit, <<>>, <<>>))

\* type_lookup.get(&type_application.type_id)
get_declaration(types, type_id) ==
    IF type_id \in DOMAIN types THEN Some(types[type_id]) ELSE None

\* a check that recognises the symbol T alone
is_generic_T_only(type_declaration) ==
    type_declaration.type_field = TF_generic_T

\* extract_generic_name(&type_declaration.type_field).is_some()
is_generic(type_declaration) ==
    extract_generic_name(type_declaration.type_field) # None

\* the inherited generic parameters handed on as they are
determine_generics_forwarding(type_application, types, type_declaration, parent_generic_params, fuel) ==
    Ok(parent_generic_params)

RECURSIVE resolve(_, _, _, _)
RECURSIVE resolve_all(_, _, _, _)
RECURSIVE determine_generics_for_type(_, _, _, _, _)

\* fuel is the stack that is left: the code recurses without a guard
resolve(type_application, types, parent_generic_params, fuel) ==
    IF fuel = 0 THEN Err("overflow", type_application.type_id)
    ELSE IF get_declaration(types, type_application.type_id) = None
    THEN Err("lookup", type_application.type_id)
    ELSE
    LET type_declaration == get_declaration(types, type_application.type_id)[1] IN
    IF is_generic(type_declaration)
    THEN LET found == find_generic(parent_generic_params, type_application.type_id)
         IN  IF found = None
             THEN Err("generic", type_application.type_id)
             ELSE Ok(inherit_name(type_application, found[1][2]))
    ELSE
    LET generic_params_lookup ==
            determine_generics_for_type(type_application, types, type_declaration,
                                        parent_generic_params, fuel)
    IN  IF ~generic_params_lookup.ok THEN generic_params_lookup
        ELSE
        LET components == resolve_all(type_declaration.components, types,
                                      Unwrap(generic_params_lookup), fuel - 1)
        IN  IF ~components.ok THEN components
            ELSE Ok(resolved_type(type_application, type_declaration,
                                  Unwrap(components), Unwrap(generic_params_lookup)))

\* .map(|component| Self::resolve(component, ..)).collect::<Result<Vec<_>>>():
\* left to right, the first error ends it
resolve_all(applications, types, generic_params, fuel) ==
    IF applications = <<>> THEN Ok(<<>>)
    ELSE LET first == resolve(Head(applications), types, generic_params, fuel)
         IN  IF ~first.ok THEN first
             ELSE LET rest == resolve_all(Tail(applications), types, generic_params, fuel)
                  IN  IF ~rest.ok THEN rest
                      ELSE Ok(<<Unwrap(first)>> \o Unwrap(rest))

determine_generics_for_type(type_application, types, type_declaration, parent_generic_params, fuel) ==
    IF type_declaration.type_parameters # <<>>
    THEN LET generic_params_from_current_type ==
                 resolve_all(type_application.type_arguments, types,
                             parent_generic_params, fuel - 1)
         IN  IF ~generic_params_from_current_type.ok
             THEN generic_params_from_current_type
             ELSE Ok(zip(type_declaration.type_parameters,
                         generics_to_use(Unwrap(generic_params_from_current_type),
                                         parent_generic_params)))
    ELSE Ok(parent_generic_params)

\* Type::try_from: resolve with no inherited generic parameters
Type_try_from(type_application, types) ==
    resolve(type_application, types, <<>>, MaxDepth)

(***************************************************************************)
(* impl TryFrom<&Type> for ParamType: the encoding descriptor of a         *)
(* resolved type.  A matcher returns Ok(None) when the descriptor is not   *)
(* its own, Ok(Some(param_type)) when it is, or an error.                  *)
(***************************************************************************)
ParamType(tag) == [tag |-> tag]

StringArray(len) == [tag |-> "StringArray", len |-> len]

Array(elem, len) == [tag |-> "Array", elem |-> elem, len |-> len]

Vector(elem) == [tag |-> "Vector", elem |-> elem]

Tuple(elems) == [tag |-> "Tuple", elems |-> elems]

Struct(name, fields, generics) ==
    [tag |-> "Struct", name |-> name, fields |-> fields, generics |-> generics]

Enum(name, enum_variants, generics) ==
    [tag |-> "Enum", name |-> name, enum_variants |-> enum_variants,
     generics |-> generics]

\* the dispatch table of try_from, in its order
matchers ==
    <<"try_primitive", "try_array", "try_str_array", "try_str_slice",
      "try_tuple", "try_vector", "try_bytes", "try_std_string",
      "try_raw_slice", "try_enum", "try_u128", "try_struct">>

\* .flat_map(|result| result.ok().flatten()).next(): the first Some among
\* the matchers' results; an error counts as no match
first_match(results) ==
    LET Hits == {i \in 1..Len(results) :
                    results[i].ok /\ Unwrap(results[i]) # None}
    IN  IF Hits = {} THEN None
        ELSE Unwrap(results[CHOOSE i \in Hits : \A j \in Hits : i <= j])

\* match the_type.components.as_slice() { [single_type] => .. , _ => Err }
\* takes the first of the components however many there are
single_type_or_first(components) ==
    IF components = <<>> THEN None ELSE Some(components[1])

single_type(components) ==
    IF Len(components) = 1 THEN Some(components[1]) ELSE None

\* the_type.generic_params.len() != 1
vec_arity_mismatch(generic_params) == Len(generic_params) # 1

\* EnumVariants::new: an enum needs at least one variant
EnumVariants_new(variants) ==
    IF variants = <<>> THEN Err("enum", "") ELSE Ok(variants)

\* a primitive matcher that gives up on a type with components
try_primitive_bare(the_type) ==
    LET f == the_type.type_field
    IN  Ok(IF the_type.components # <<>> THEN None
           ELSE CASE f = TF_bool -> Some(ParamType("Bool"))
                  [] f = TF_u8 -> Some(ParamType("U8"))
                  [] f = TF_u16 -> Some(ParamType("U16"))
                  [] f = TF_u32 -> Some(ParamType("U32"))
                  [] f = TF_u64 -> Some(ParamType("U64"))
                  [] f = TF_u256 -> Some(ParamType("U256"))
                  [] f = TF_b256 -> Some(ParamType("B256"))
                  [] f = TF_unit -> Some(ParamType("Unit"))
                  [] f = TF_str -> Some(ParamType("StringSlice"))
                  [] OTHER -> None)

try_primitive(the_type) ==
    LET f == the_type.type_field
    IN  Ok(CASE f = TF_bool -> Some(ParamType("Bool"))
             [] f = TF_u8 -> Some(ParamType("U8"))
             [] f = TF_u16 -> Some(ParamType("U16"))
             [] f = TF_u32 -> Some(ParamType("U32"))
             [] f = TF_u64 -> Some(ParamType("U64"))
             [] f = TF_u256 -> Some(ParamType("U256"))
             [] f = TF_b256 -> Some(ParamType("B256"))
             [] f = TF_unit -> Some(ParamType("Unit"))
             [] f = TF_str -> Some(ParamType("StringSlice"))
             [] OTHER -> None)

try_str_array(the_type) ==
    LET len == extract_str_len(the_type.type_field)
    IN  Ok(IF len = None THEN None ELSE Some(StringArray(len[1])))

try_str_slice(the_type) ==
    Ok(IF the_type.type_field = TF_str THEN Some(ParamType("StringSlice")) ELSE None)

try_u128(the_type) ==
    Ok(IF the_type.type_field \in {TF_struct_std_u128_U128, TF_struct_U128}
       THEN Some(ParamType("U128")) ELSE None)

try_bytes(the_type) ==
    Ok(IF the_type.type_field \in {TF_struct_std_bytes_Bytes, TF_struct_Bytes}
       THEN Some(ParamType("Bytes")) ELSE None)

try_std_string(the_type) ==
    Ok(IF the_type.type_field \in {TF_struct_std_string_String, TF_struct_String}
       THEN Some(ParamType("String")) ELSE None)

try_raw_slice(the_type) ==
    Ok(IF the_type.type_field = TF_raw_untyped_slice
       THEN Some(ParamType("RawSlice")) ELSE None)

RECURSIVE ParamType_try_from(_)
RECURSIVE param_types(_)
RECURSIVE named_param_types(_)

\* coll.iter().map(|t| t.try_into()).collect(): the first error ends it
param_types(coll) ==
    IF coll = <<>> THEN Ok(<<>>)
    ELSE LET first == ParamType_try_from(Head(coll))
         IN  IF ~first.ok THEN first
             ELSE LET rest == param_types(Tail(coll))
                  IN  IF ~rest.ok THEN rest
                      ELSE Ok(<<Unwrap(first)>> \o Unwrap(rest))

convert_into_param_types(coll) == param_types(coll)

\* (ttype.name.clone(), ttype.try_into()?)
named_param_types(coll) ==
    IF coll = <<>> THEN Ok(<<>>)
    ELSE LET first == ParamType_try_from(Head(coll))
         IN  IF ~first.ok THEN first
             ELSE LET rest == named_param_types(Tail(coll))
                  IN  IF ~rest.ok THEN rest
                      ELSE Ok(<< <<Head(coll).name, Unwrap(first)>> >> \o Unwrap(rest))

try_array(the_type) ==
    LET len == extract_array_len(the_type.type_field)
        single == single_type(the_type.components)
    IN  IF len = None THEN Ok(None)
        ELSE IF single = None THEN Err("array", the_type.type_field)
        ELSE LET array_type == ParamType_try_from(single[1])
             IN  IF ~array_type.ok THEN array_type
                 ELSE Ok(Some(Array(Unwrap(array_type), len[1])))

try_tuple(the_type) ==
    IF has_tuple_format(the_type.type_field)
    THEN LET tuple_elements == param_types(the_type.components)
         IN  IF ~tuple_elements.ok THEN tuple_elements
             ELSE Ok(Some(Tuple(Unwrap(tuple_elements))))
    ELSE Ok(None)

try_vector(the_type) ==
    IF the_type.type_field \notin {TF_struct_std_vec_Vec, TF_struct_Vec}
    THEN Ok(None)
    ELSE IF vec_arity_mismatch(the_type.generic_params)
    THEN Err("vector", the_type.type_field)
    ELSE LET elems == convert_into_param_types(the_type.generic_params)
         IN  IF ~elems.ok THEN elems
             ELSE Ok(Some(Vector(Head(Unwrap(elems)))))

try_enum(the_type) ==
    LET field == the_type.type_field IN
    IF starts_with(field, PFX_enum)
    THEN LET components == named_param_types(the_type.components) IN
         IF ~components.ok THEN components ELSE
         LET enum_variants == EnumVariants_new(Unwrap(components)) IN
         IF ~enum_variants.ok THEN enum_variants ELSE
         LET generics == param_types(the_type.generic_params) IN
         IF ~generics.ok THEN generics ELSE
         Ok(Some(Enum(strip_prefix(field, PFX_enum), Unwrap(enum_variants),
                      Unwrap(generics))))
    ELSE Ok(None)

\* a struct matcher that keeps the whole descriptor as the name
try_struct_keeping_prefix(the_type) ==
    LET field == the_type.type_field IN
    IF starts_with(field, PFX_struct)
    THEN LET fields == named_param_types(the_type.components) IN
         IF ~fields.ok THEN fields ELSE
         LET generics == param_types(the_type.generic_params) IN
         IF ~generics.ok THEN generics ELSE
         Ok(Some(Struct(field, Unwrap(fields), Unwrap(generics))))
    ELSE Ok(None)

try_struct(the_type) ==
    LET field == the_type.type_field IN
    IF starts_with(field, PFX_struct)
    THEN LET fields == named_param_types(the_type.components) IN
         IF ~fields.ok THEN fields ELSE
         LET generics == param_types(the_type.generic_params) IN
         IF ~generics.ok THEN generics ELSE
         Ok(Some(Struct(strip_prefix(field, PFX_struct), Unwrap(fields),
                        Unwrap(generics))))
    ELSE Ok(None)

\* .map(|fun| fun(the_type))
apply_matcher(fun, the_type) ==
    CASE fun = "try_primitive" -> try_primitive(the_type)
      [] fun = "try_array" -> try_array(the_type)
      [] fun = "try_str_array" -> try_str_array(the_type)
      [] fun = "try_str_slice" -> try_str_slice(the_type)
      [] fun = "try_tuple" -> try_tuple(the_type)
      [] fun = "try_vector" -> try_vector(the_type)
      [] fun = "try_bytes" -> try_bytes(the_type)
      [] fun = "try_std_string" -> try_std_string(the_type)
      [] fun = "try_raw_slice" -> try_raw_slice(the_type)
      [] fun = "try_enum" -> try_enum(the_type)
      [] fun = "try_u128" -> try_u128(the_type)
      [] fun = "try_struct" -> try_struct(the_type)

ParamType_try_from(the_type) ==
    LET matched_param_type ==
            first_match([i \in 1..Len(matchers) |-> apply_matcher(matchers[i], the_type)])
    IN  IF matched_param_type = None
        THEN Err("unrecognised", the_type.type_field)
        ELSE Ok(matched_param_type[1])

\* the resolution alone, without the derivation that follows it
try_from_without_derive(application, types) ==
    Type_try_from(application, types)

\* ParamType::try_from_type_application
try_from_type_application(type_application, types) ==
    LET the_type == Type_try_from(type_application, types)
    IN  IF ~the_type.ok THEN the_type ELSE ParamType_try_from(Unwrap(the_type))

(***************************************************************************)
(* TypeResolver::resolve of the code generator: the rendered type of a     *)
(* FullTypeApplication, which carries its declaration (type_decl) inline.  *)
(***************************************************************************)
FullTypeDeclaration(type_field, components, type_parameters) ==
    [type_field |-> type_field,
     components |-> components,
     type_parameters |-> type_parameters]

FullTypeApplication(name, type_decl, type_arguments) ==
    [name |-> name, type_decl |-> type_decl, type_arguments |-> type_arguments]

\* the parts of a path between its "::" separators
RECURSIVE SplitPath(_, _)
SplitPath(s, part) ==
    IF s = <<>> THEN <<part>>
    ELSE IF starts_with(s, <<":", ":">>)
    THEN <<part>> \o SplitPath(SubSeq(s, 3, Len(s)), <<>>)
    ELSE SplitPath(Tail(s), Append(part, Head(s)))

\* TypePath::new: a leading "::" makes the path absolute
TypePath_new(path) ==
    IF starts_with(path, <<":", ":">>)
    THEN [parts |-> SplitPath(SubSeq(path, 3, Len(path)), <<>>), is_absolute |-> TRUE]
    ELSE [parts |-> SplitPath(path, <<>>), is_absolute |-> FALSE]

\* TypePath::default: the crate root
TypePath_default == [parts |-> <<>>, is_absolute |-> FALSE]

PATH_core_primitive == <<":", ":", "c", "o", "r", "e", ":", ":", "p", "r", "i", "m", "i", "t", "i", "v", "e", ":", ":">>
PATH_u128 == <<":", ":", "c", "o", "r", "e", ":", ":", "p", "r", "i", "m", "i", "t", "i", "v", "e", ":", ":", "u", "1", "2", "8">>
PATH_U256 == <<":", ":", "f", "u", "e", "l", "s", ":", ":", "t", "y", "p", "e", "s", ":", ":", "U", "2", "5", "6">>
PATH_Bits256 == <<":", ":", "f", "u", "e", "l", "s", ":", ":", "t", "y", "p", "e", "s", ":", ":", "B", "i", "t", "s", "2", "5", "6">>
PATH_SizedAsciiString == <<":", ":", "f", "u", "e", "l", "s", ":", ":", "t", "y", "p", "e", "s", ":", ":", "S", "i", "z", "e", "d", "A", "s", "c", "i", "i", "S", "t", "r", "i", "n", "g">>
PATH_AsciiString == <<":", ":", "f", "u", "e", "l", "s", ":", ":", "t", "y", "p", "e", "s", ":", ":", "A", "s", "c", "i", "i", "S", "t", "r", "i", "n", "g">>
PATH_RawSlice == <<":", ":", "f", "u", "e", "l", "s", ":", ":", "t", "y", "p", "e", "s", ":", ":", "R", "a", "w", "S", "l", "i", "c", "e">>
PATH_std_vec_Vec == <<"s", "t", "d", ":", ":", "v", "e", "c", ":", ":", "V", "e", "c">>
PATH_host_Vec == <<":", ":", "s", "t", "d", ":", ":", "v", "e", "c", ":", ":", "V", "e", "c">>

ResolvedType_Unit == [kind |-> "Unit"]

ResolvedType_Primitive(path) == [kind |-> "Primitive", path |-> path]

ResolvedType_StructOrEnum(path, generics) ==
    [kind |-> "StructOrEnum", path |-> path, generics |-> generics]

ResolvedType_Array(el, len) == [kind |-> "Array", el |-> el, len |-> len]

ResolvedType_Tuple(elements) == [kind |-> "Tuple", elements |-> elements]

GenericType_Named(ident) == [kind |-> "Named", ident |-> ident]

GenericType_Constant(constant) == [kind |-> "Constant", constant |-> constant]

ResolvedType_Generic(generic_type) == [kind |-> "Generic", generic |-> generic_type]

\* the entries of a list without the repetitions of earlier entries
RECURSIVE without_duplicates(_)
without_duplicates(coll) ==
    IF coll = <<>> THEN <<>>
    ELSE LET front == without_duplicates(SubSeq(coll, 1, Len(coll) - 1))
         IN  IF \E i \in 1..Len(front) : front[i] = coll[Len(coll)]
             THEN front
             ELSE Append(front, coll[Len(coll)])

RECURSIVE ResolvedType_generics(_)
\* elements.iter().flat_map(|el| el.generics()).collect()
RECURSIVE flat_map_generics(_)
flat_map_generics(elements) ==
    IF elements = <<>> THEN <<>>
    ELSE ResolvedType_generics(Head(elements)) \o flat_map_generics(Tail(elements))

\* each generic listed once
generics_without_duplicates(self) ==
    without_duplicates(
        CASE self.kind = "StructOrEnum" -> flat_map_generics(self.generics)
          [] self.kind = "Tuple" -> flat_map_generics(self.elements)
          [] self.kind = "Array" -> ResolvedType_generics(self.el)
          [] self.kind = "Generic" -> <<self.generic>>
          [] OTHER -> <<>>)

\* ResolvedType::generics
ResolvedType_generics(self) ==
    CASE self.kind = "StructOrEnum" -> flat_map_generics(self.generics)
      [] self.kind = "Tuple" -> flat_map_generics(self.elements)
      [] self.kind = "Array" -> ResolvedType_generics(self.el)
      [] self.kind = "Generic" -> <<self.generic>>
      [] OTHER -> <<>>

\* FullTypeDeclaration::is_custom_type
is_custom_type(type_decl) ==
    \/ starts_with(type_decl.type_field, PFX_struct)
    \/ starts_with(type_decl.type_field, PFX_enum)

\* FullTypeDeclaration::custom_type_path: the path after "struct " or "enum "
custom_type_path(type_decl) ==
    IF starts_with(type_decl.type_field, PFX_struct)
    THEN TypePath_new(strip_prefix(type_decl.type_field, PFX_struct))
    ELSE TypePath_new(strip_prefix(type_decl.type_field, PFX_enum))

\* sdk_provided_custom_types_lookup().get(&original_path)
sdk_provided_custom_types_lookup(original_path) ==
    IF original_path = TypePath_new(PATH_std_vec_Vec)
    THEN Some(TypePath_new(PATH_host_Vec))
    ELSE None

\* TypePath::relative_path_from
relative_path_from(path, current_mod) ==
    LET our_parent == SubSeq(path.parts, 1, Len(path.parts) - 1)
        Matching == {n \in 0..Len(our_parent) :
                        /\ n <= Len(current_mod.parts)
                        /\ \A i \in 1..n : our_parent[i] = current_mod.parts[i]}
        matching == CHOOSE n \in Matching : \A m \in Matching : m <= n
        prefix == IF Len(current_mod.parts) = matching
                  THEN << <<"s", "e", "l", "f">> >>
                  ELSE [i \in 1..(Len(current_mod.parts) - matching) |->
                            <<"s", "u", "p", "e", "r">>]
    IN  [parts |-> prefix \o SubSeq(path.parts, matching + 1, Len(path.parts)),
         is_absolute |-> FALSE]

try_as_primitive_type(type_application) ==
    LET type_field == type_application.type_decl.type_field
    IN  Ok(CASE type_field = TF_unit -> Some(ResolvedType_Unit)
             [] type_field \in {TF_bool, TF_u8, TF_u16, TF_u32, TF_u64} ->
                    Some(ResolvedType_Primitive(
                            TypePath_new(PATH_core_primitive \o type_field)))
             [] type_field \in {TF_struct_std_u128_U128, TF_struct_U128} ->
                    Some(ResolvedType_Primitive(TypePath_new(PATH_u128)))
             [] type_field = TF_u256 ->
                    Some(ResolvedType_Primitive(TypePath_new(PATH_U256)))
             [] OTHER -> None)

try_as_bits256(type_application) ==
    IF type_application.type_decl.type_field # TF_b256 THEN Ok(None)
    ELSE Ok(Some(ResolvedType_StructOrEnum(TypePath_new(PATH_Bits256), <<>>)))

try_as_generic(type_application) ==
    LET name == extract_generic_name(type_application.type_decl.type_field)
    IN  IF name = None THEN Ok(None)
        ELSE Ok(Some(ResolvedType_Generic(GenericType_Named(name[1]))))

try_as_sized_ascii_string(type_application) ==
    LET len == extract_str_len(type_application.type_decl.type_field)
    IN  IF len = None THEN Ok(None)
        ELSE Ok(Some(ResolvedType_StructOrEnum(
                        TypePath_new(PATH_SizedAsciiString),
                        <<ResolvedType_Generic(GenericType_Constant(len[1]))>>)))

try_as_ascii_string(type_application) ==
    Ok(IF type_application.type_decl.type_field = TF_str
       THEN Some(ResolvedType_StructOrEnum(TypePath_new(PATH_AsciiString), <<>>))
       ELSE None)

try_as_raw_slice(type_application) ==
    IF type_application.type_decl.type_field # TF_raw_untyped_slice THEN Ok(None)
    ELSE Ok(Some(ResolvedType_StructOrEnum(TypePath_new(PATH_RawSlice), <<>>)))

\* match components.as_slice() { [single_type] => single_type, other => Err }
single_component(components) ==
    IF Len(components) = 1 THEN Some(components[1]) ELSE None

\* the resolvers with the custom types tried first
resolvers_custom_first ==
    <<"try_as_custom_type", "try_as_primitive_type", "try_as_bits256",
      "try_as_generic", "try_as_array", "try_as_sized_ascii_string",
      "try_as_ascii_string", "try_as_tuple", "try_as_raw_slice">>

\* the resolvers of TypeResolver::resolve, in their order
resolvers ==
    <<"try_as_primitive_type", "try_as_bits256", "try_as_generic",
      "try_as_array", "try_as_sized_ascii_string", "try_as_ascii_string",
      "try_as_tuple", "try_as_raw_slice", "try_as_custom_type">>

RECURSIVE TypeResolver_resolve(_, _)
RECURSIVE resolve_multiple(_, _)
RECURSIVE resolve_from(_, _, _)

resolve_multiple(current_mod, type_applications) ==
    IF type_applications = <<>> THEN Ok(<<>>)
    ELSE LET first == TypeResolver_resolve(current_mod, Head(type_applications))
         IN  IF ~first.ok THEN first
             ELSE LET rest == resolve_multiple(current_mod, Tail(type_applications))
                  IN  IF ~rest.ok THEN rest
                      ELSE Ok(<<Unwrap(first)>> \o Unwrap(rest))

try_as_array(current_mod, type_application) ==
    LET type_decl == type_application.type_decl
        len == extract_array_len(type_decl.type_field)
    IN  IF len = None THEN Ok(None) ELSE
        LET components == resolve_multiple(current_mod, type_decl.components) IN
        IF ~components.ok THEN components ELSE
        LET type_inside == single_component(Unwrap(components)) IN
        IF type_inside = None THEN Err("array", type_decl.type_field)
        ELSE Ok(Some(ResolvedType_Array(type_inside[1], len[1])))

try_as_tuple(current_mod, type_application) ==
    LET type_decl == type_application.type_decl IN
    IF ~has_tuple_format(type_decl.type_field) THEN Ok(None) ELSE
    LET inner_types == resolve_multiple(current_mod, type_decl.components) IN
    IF ~inner_types.ok THEN inner_types
    ELSE Ok(Some(ResolvedType_Tuple(Unwrap(inner_types))))

\* a custom type whose generics are taken from the declaration's components
try_as_custom_type_of_components(current_mod, type_application) ==
    LET type_decl == type_application.type_decl IN
    IF ~is_custom_type(type_decl) THEN Ok(None) ELSE
    LET original_path == custom_type_path(type_decl)
        provided == sdk_provided_custom_types_lookup(original_path)
        used_path == IF provided # None THEN provided[1]
                     ELSE relative_path_from(original_path, current_mod)
        generics == resolve_multiple(current_mod, type_decl.components)
    IN  IF ~generics.ok THEN generics
        ELSE Ok(Some(ResolvedType_StructOrEnum(used_path, Unwrap(generics))))

try_as_custom_type(current_mod, type_application) ==
    LET type_decl == type_application.type_decl IN
    IF ~is_custom_type(type_decl) THEN Ok(None) ELSE
    LET original_path == custom_type_path(type_decl)
        provided == sdk_provided_custom_types_lookup(original_path)
        used_path == IF provided # None THEN provided[1]
                     ELSE relative_path_from(original_path, current_mod)
        generics == resolve_multiple(current_mod, type_application.type_arguments)
    IN  IF ~generics.ok THEN generics
        ELSE Ok(Some(ResolvedType_StructOrEnum(used_path, Unwrap(generics))))

apply_resolver(resolver, current_mod, type_application) ==
    CASE resolver = "try_as_primitive_type" -> try_as_primitive_type(type_application)
      [] resolver = "try_as_bits256" -> try_as_bits256(type_application)
      [] resolver = "try_as_generic" -> try_as_generic(type_application)
      [] resolver = "try_as_array" -> try_as_array(current_mod, type_application)
      [] resolver = "try_as_sized_ascii_string" ->
             try_as_sized_ascii_string(type_application)
      [] resolver = "try_as_ascii_string" -> try_as_ascii_string(type_application)
      [] resolver = "try_as_tuple" -> try_as_tuple(current_mod, type_application)
      [] resolver = "try_as_raw_slice" -> try_as_raw_slice(type_application)
      [] resolver = "try_as_custom_type" ->
             try_as_custom_type(current_mod, type_application)

\* for resolver in resolvers { if let Some(resolved) = resolver(..)? { return } }
resolve_from(i, current_mod, type_application) ==
    IF i > Len(resolvers)
    THEN Err("unresolved", type_application.type_decl.type_field)
    ELSE LET r == apply_resolver(resolvers[i], current_mod, type_application)
         IN  IF ~r.ok THEN r
             ELSE IF Unwrap(r) # None THEN Ok(Unwrap(r)[1])
             ELSE resolve_from(i + 1, current_mod, type_application)

TypeResolver_resolve(current_mod, type_application) ==
    resolve_from(1, current_mod, type_application)

(***************************************************************************)
(* generate_types of the code generator.  GeneratedCode is modelled as the *)
(* sequence of the items it holds, each with the module it is wrapped in.  *)
(***************************************************************************)
\* TypePath::parent: the path without its last part
TypePath_parent(path) ==
    [parts |-> IF path.parts = <<>> THEN <<>>
               ELSE SubSeq(path.parts, 1, Len(path.parts) - 1),
     is_absolute |-> path.is_absolute]

\* TypePath::append
TypePath_append(path, another) ==
    [parts |-> path.parts \o another.parts, is_absolute |-> path.is_absolute]

\* TypePath::ident: the last part
TypePath_ident(path) == path.parts[Len(path.parts)]

PATH_super_shared_types == <<"s", "u", "p", "e", "r", ":", ":", "s", "h", "a", "r", "e", "d", "_", "t", "y", "p", "e", "s">>

\* the paths of is_type_unused
UnusedTypePaths ==
    {TypePath_new(<<"R", "a", "w", "B", "y", "t", "e", "s">>),
     TypePath_new(<<"s", "t", "d", ":", ":", "v", "e", "c", ":", ":", "R", "a", "w", "V", "e", "c">>),
     TypePath_new(<<"s", "t", "d", ":", ":", "b", "y", "t", "e", "s", ":", ":", "R", "a", "w", "B", "y", "t", "e", "s">>),
     TypePath_new(<<"R", "a", "w", "V", "e", "c">>)}

\* GeneratedCode::default
GeneratedCode_default == <<>>

\* GeneratedCode::merge
GeneratedCode_merge(code, another) == code \o another

\* GeneratedCode::wrap_in_mod
wrap_in_mod(code, type_mod) ==
    [i \in 1..Len(code) |-> [code[i] EXCEPT !.mod = type_mod.parts \o @]]

\* a generated struct or enum: its fields or variants with their rendered
\* types; a struct has a constructor with one argument per field
CustomTypeCode(kind, name, fields) ==
    [kind |-> kind, mod |-> <<>>, name |-> name, fields |-> fields,
     constructor |-> IF kind = "struct" THEN Some(fields) ELSE None,
     path |-> None]

\* quote! {pub use #path;}
ReexportCode(path) ==
    [kind |-> "reexport", mod |-> <<>>, name |-> TypePath_ident(path),
     fields |-> <<>>, constructor |-> None, path |-> Some(path)]

\* the components of a custom type, each with its name and rendered type
named_components(type_decl, rendered_types) ==
    [i \in 1..Len(rendered_types) |->
        <<type_decl.components[i].name, rendered_types[i]>>]

\* expand_custom_struct: one field per component in declared order and a
\* constructor taking them in that order
struct_with_components(type_decl, components) ==
    LET type_path == custom_type_path(type_decl)
        type_mod == TypePath_parent(type_path)
    IN  IF ~components.ok THEN components
        ELSE Ok(wrap_in_mod(
                 <<CustomTypeCode("struct", TypePath_ident(type_path),
                       named_components(type_decl, Unwrap(components)))>>,
                 type_mod))

expand_custom_struct(type_decl) ==
    struct_with_components(type_decl,
        resolve_multiple(TypePath_parent(custom_type_path(type_decl)),
                         type_decl.components))

\* expand_custom_enum: one variant per component; no variant is an error
enum_with_components(type_decl, components) ==
    LET type_path == custom_type_path(type_decl)
        type_mod == TypePath_parent(type_path)
    IN  IF ~components.ok THEN components
        ELSE IF Unwrap(components) = <<>> THEN Err("enum", type_decl.type_field)
        ELSE Ok(wrap_in_mod(
                 <<CustomTypeCode("enum", TypePath_ident(type_path),
                       named_components(type_decl, Unwrap(components)))>>,
                 type_mod))

expand_custom_enum(type_decl) ==
    enum_with_components(type_decl,
        resolve_multiple(TypePath_parent(custom_type_path(type_decl)),
                         type_decl.components))

\* a re-export that does not climb out of the type's own module
reexport_from_type_mod(ttype) ==
    LET type_path == custom_type_path(ttype)
        type_mod == TypePath_parent(type_path)
        path == TypePath_append(TypePath_new(PATH_super_shared_types), type_path)
    IN  Ok(wrap_in_mod(<<ReexportCode(path)>>, type_mod))

reexport_the_shared_type(ttype) ==
    LET type_path == custom_type_path(ttype)
        type_mod == TypePath_parent(type_path)
        from_top_lvl_to_shared_types == TypePath_new(PATH_super_shared_types)
        top_lvl_mod == TypePath_default
        from_current_mod_to_top_level == relative_path_from(top_lvl_mod, type_mod)
        path == TypePath_append(
                    TypePath_append(from_current_mod_to_top_level,
                                    from_top_lvl_to_shared_types),
                    type_path)
    IN  Ok(wrap_in_mod(<<ReexportCode(path)>>, type_mod))

is_type_sdk_provided(type_path) ==
    sdk_provided_custom_types_lookup(type_path) # None

\* a denylist that knows the std paths only
is_type_unused_std_only(type_path) ==
    type_path \in {TypePath_new(<<"s", "t", "d", ":", ":", "v", "e", "c", ":", ":", "R", "a", "w", "V", "e", "c">>),
                   TypePath_new(<<"s", "t", "d", ":", ":", "b", "y", "t", "e", "s", ":", ":", "R", "a", "w", "B", "y", "t", "e", "s">>)}

is_type_unused(type_path) == type_path \in UnusedTypePaths

should_skip_codegen(type_decl) ==
    IF ~is_custom_type(type_decl) THEN TRUE
    ELSE LET type_path == custom_type_path(type_decl)
         IN  is_type_sdk_provided(type_path) \/ is_type_unused(type_path)

\* ttype.is_struct_type()
is_struct_type(type_decl) == starts_with(type_decl.type_field, PFX_struct)

\* the closure of generate_types' map
generate_type(ttype, shared) ==
    IF ttype \in shared THEN reexport_the_shared_type(ttype)
    ELSE IF is_struct_type(ttype) THEN expand_custom_struct(ttype)
    ELSE expand_custom_enum(ttype)

\* the accumulator with the code merged in, unchanged when there is none
merge_if_ok(acc, generated) ==
    IF generated.ok THEN GeneratedCode_merge(acc, Unwrap(generated)) ELSE acc

\* a fold that leaves out the declarations whose generation fails
RECURSIVE fold_skipping_errors(_, _, _)
fold_skipping_errors(acc, types, shared) ==
    IF types = <<>> THEN Ok(acc)
    ELSE IF should_skip_codegen(Head(types))
    THEN fold_skipping_errors(acc, Tail(types), shared)
    ELSE fold_skipping_errors(merge_if_ok(acc, generate_type(Head(types), shared)),
                              Tail(types), shared)

RECURSIVE fold_ok(_, _, _)
\* the fold's step: the first error ends it
fold_step(acc, generated, types, shared) ==
    IF ~generated.ok THEN generated
    ELSE fold_ok(GeneratedCode_merge(acc, Unwrap(generated)), types, shared)

\* fold_ok: merges the generated code in order and stops at the first error
fold_ok(acc, types, shared) ==
    IF types = <<>> THEN Ok(acc)
    ELSE IF should_skip_codegen(Head(types)) THEN fold_ok(acc, Tail(types), shared)
    ELSE fold_step(acc, generate_type(Head(types), shared), Tail(types), shared)

generate_types(types, shared) == fold_ok(GeneratedCode_default, types, shared)

(***************************************************************************)
(* expand_fn of the contract bindings.  The generated method is modelled   *)
(* as a record of its parts: the doc attributes, the name, the parameters  *)
(* after &self, the return type and the arguments of new_contract_call.    *)
(***************************************************************************)
Attribute(name, arguments) == [name |-> name, arguments |-> arguments]

FullABIFunction(name, inputs, output, attributes) ==
    [name |-> name, inputs |-> inputs, output |-> output, attributes |-> attributes]

IsDocComment(attr) == attr.name = "doc-comment"

\* FullABIFunction::doc_strings: the argument of every doc-comment
\* attribute, which must be the only one
doc_strings(abi_fun) ==
    LET docs == SelectSeq(abi_fun.attributes, IsDocComment)
    IN  IF \E i \in 1..Len(docs) : Len(docs[i].arguments) # 1
        THEN Err("attribute", "doc-comment")
        ELSE Ok([i \in 1..Len(docs) |-> docs[i].arguments[1]])

\* FullABIFunction::is_payable
is_payable(abi_fun) ==
    \E i \in 1..Len(abi_fun.attributes) : abi_fun.attributes[i].name = "payable"

FunctionGenerator(fun, args, output) ==
    IF ~args.ok THEN args
    ELSE IF ~output.ok THEN output
    ELSE Ok([name |-> fun.name,
             args |-> [i \in 1..Len(fun.inputs) |->
                          [name |-> fun.inputs[i].name, type |-> Unwrap(args)[i]]],
             output_type |-> Unwrap(output)])

\* FunctionGenerator::new: the inputs and the output, rendered
FunctionGenerator_new(fun) ==
    FunctionGenerator(fun, resolve_multiple(TypePath_default, fun.inputs),
                      TypeResolver_resolve(TypePath_default, fun.output))

\* FunctionGenerator::fn_selector: encode_fn_selector(name)
fn_selector(generator) == generator.name

\* FunctionGenerator::tokenized_args: into_token of each argument
tokenized_args(generator) ==
    [i \in 1..Len(generator.args) |-> generator.args[i].name]

\* CallHandler<A, ContractCall, original_output>
CallHandlerType(original_output) ==
    [handler |-> "CallHandler", account |-> "A", call |-> "ContractCall",
     output |-> original_output]

\* a call that is never payable
new_contract_call_not_payable(selector, arg_tokens, payable) ==
    [fn_selector |-> selector, arg_tokens |-> arg_tokens, is_payable |-> FALSE]

\* the body: CallHandler::new_contract_call(contract_id, account,
\* fn_selector, &arg_tokens, log_decoder, is_payable, encoder_config)
new_contract_call(selector, arg_tokens, payable) ==
    [fn_selector |-> selector, arg_tokens |-> arg_tokens, is_payable |-> payable]

\* FunctionGenerator::generate once the docs, the output type and the body
\* are set
generate(generator, docs, payable) ==
    [docs |-> docs,
     name |-> generator.name,
     args |-> generator.args,
     output_type |-> CallHandlerType(generator.output_type),
     body |-> new_contract_call(fn_selector(generator), tokenized_args(generator),
                                payable)]

\* the steps of expand_fn after FunctionGenerator::new(abi_fun)? and
\* abi_fun.doc_strings()?
expand_with(generator, docs, payable) ==
    IF ~generator.ok THEN generator
    ELSE IF ~docs.ok THEN docs
    ELSE Ok(generate(Unwrap(generator), Unwrap(docs), payable))

expand_fn(fun) ==
    expand_with(FunctionGenerator_new(fun), doc_strings(fun), is_payable(fun))

RECURSIVE fold_functions(_, _)
\* the fold's step: the first error ends it
fold_functions_step(all_code, code, functions) ==
    IF ~code.ok THEN code
    ELSE fold_functions(Append(all_code, Unwrap(code)), functions)

\* a fold that leaves out the functions whose expansion fails
RECURSIVE fold_functions_skipping_errors(_, _)
fold_functions_skipping_errors(all_code, functions) ==
    IF functions = <<>> THEN Ok(all_code)
    ELSE fold_functions_skipping_errors(
             all_code \o (IF expand_fn(Head(functions)).ok
                          THEN <<Unwrap(expand_fn(Head(functions)))>> ELSE <<>>),
             Tail(functions))

\* .map(expand_fn).fold_ok(TokenStream::default(), append_all)
fold_functions(all_code, functions) ==
    IF functions = <<>> THEN Ok(all_code)
    ELSE fold_functions_step(all_code, expand_fn(Head(functions)), Tail(functions))

expand_functions(functions) == fold_functions(<<>>, functions)

(***************************************************************************)
(* Token and ABIEncoder::encode.  A token is a record: num is the value of *)
(* an unsigned integer or the discriminant of an enum, flag the value of a *)
(* bool, tokens the fields of a struct or the one payload of an enum.      *)
(***************************************************************************)
Token(tag, num, flag, tokens) ==
    [tag |-> tag, num |-> num, flag |-> flag, tokens |-> tokens]

Token_Unit == Token("Unit", 0, FALSE, <<>>)

Token_Bool(value) == Token("Bool", 0, value, <<>>)

Token_U8(value) == Token("U8", value, FALSE, <<>>)

Token_U16(value) == Token("U16", value, FALSE, <<>>)

Token_U32(value) == Token("U32", value, FALSE, <<>>)

Token_U64(value) == Token("U64", value, FALSE, <<>>)

Token_Struct(tokens) == Token("Struct", 0, FALSE, tokens)

Token_Enum(discriminant, token) == Token("Enum", discriminant, FALSE, <<token>>)

\* to_be_bytes: the value in width bytes, most significant byte first
RECURSIVE to_be_bytes(_, _)
to_be_bytes(value, width) ==
    IF width = 0 THEN <<>>
    ELSE Append(to_be_bytes(value \div 256, width - 1), value % 256)

\* a u32 padded to a word of 8 bytes
encode_u32_as_word(value) == to_be_bytes(value, 8)

encode_u32(value) == to_be_bytes(value, 4)

encode_bool(value) == <<IF value THEN 1 ELSE 0>>

RECURSIVE encode_token(_)
RECURSIVE encode_tokens(_)
\* the discriminant as a u64, then the payload
encode_enum(discriminant, token) ==
    to_be_bytes(discriminant, 8) \o encode_token(token)

encode_token(token) ==
    CASE token.tag = "Unit"   -> <<>>
      [] token.tag = "Bool"   -> encode_bool(token.flag)
      [] token.tag = "U8"     -> to_be_bytes(token.num, 1)
      [] token.tag = "U16"    -> to_be_bytes(token.num, 2)
      [] token.tag = "U32"    -> encode_u32(token.num)
      [] token.tag = "U64"    -> to_be_bytes(token.num, 8)
      [] token.tag = "Struct" -> encode_tokens(token.tokens)
      [] token.tag = "Enum"   -> encode_enum(token.num, token.tokens[1])

\* the encodings of the tokens one after the other
encode_tokens(tokens) ==
    IF tokens = <<>> THEN <<>>
    ELSE encode_token(Head(tokens)) \o encode_tokens(Tail(tokens))

\* ABIEncoder::encode(&[token])
ABIEncoder_encode(tokens) == Ok(encode_tokens(tokens))

(***************************************************************************)
(* Type tables.  Every table holds the primitives, the generic             *)
(* placeholders and the vector of tests::handles_vectors, and a chain of   *)
(* n nested generic structs                                                *)
(*     struct S1<G1> { inner: S2<G1> } ... struct Sn<Gn> { val: Gn }       *)
(* in which level i declares its parameter under the id g[i].  One level   *)
(* (at) may depart from the chain (variant):                               *)
(*   "forward": its component is applied with no type arguments;           *)
(*   "plain"  : it declares no type parameters;                            *)
(*   "array"  : its component is reached through a "[_; 2]" declaration;   *)
(*   "tuple"  : its component is reached through a "(_, _)" declaration;   *)
(*   "missing": its declaration is absent from the table;                  *)
(*   "cycle"  : its component is the first level of the chain again.       *)
(***************************************************************************)
\* the ids of the generic placeholders a chain level may declare
ChainGenericIds == {"gT", "gK"}

Variants == {"generic", "forward", "plain", "array", "tuple", "missing"}

ChainId(i) == "S" \o ToString(i)

\* "struct S<i>"
ChainField(i) == PFX_struct \o <<"S", Digits[i + 1]>>

\* declarations that every table holds; "gT" and "gT2" are two placeholders
\* with the same symbol T
BaseDeclarations ==
    [id \in {"u8", "u16", "u64", "gT", "gK", "gT2", "ptr", "RawVec", "Vec"} |->
        CASE id = "u8" -> TypeDeclaration(TF_u8, <<>>, <<>>)
          [] id = "u16" -> TypeDeclaration(TF_u16, <<>>, <<>>)
          [] id = "u64" -> TypeDeclaration(TF_u64, <<>>, <<>>)
          [] id = "gT" -> TypeDeclaration(TF_generic_T, <<>>, <<>>)
          [] id = "gK" -> TypeDeclaration(TF_generic_K, <<>>, <<>>)
          [] id = "gT2" -> TypeDeclaration(TF_generic_T, <<>>, <<>>)
          [] id = "ptr" -> TypeDeclaration(TF_raw_untyped_ptr, <<>>, <<>>)
          [] id = "RawVec" ->
                 TypeDeclaration(PFX_struct \o <<"R", "a", "w", "V", "e", "c">>,
                     <<TypeApplication("ptr", "ptr", <<>>),
                       TypeApplication("cap", "u64", <<>>)>>,
                     <<"gT">>)
          [] id = "Vec" ->
                 TypeDeclaration(TF_struct_std_vec_Vec,
                     <<TypeApplication("buf", "RawVec",
                                       <<TypeApplication("", "gT", <<>>)>>),
                       TypeApplication("len", "u64", <<>>)>>,
                     <<"gT">>)]

\* what level i holds: the next level with this level's parameter as its
\* type argument, or at the last level a field of the parameter's type
ChainInner(n, g, i) ==
    IF i < n
    THEN TypeApplication("inner", ChainId(i + 1),
                         <<TypeApplication("", g[i], <<>>)>>)
    ELSE TypeApplication("val", g[i], <<>>)

ChainDeclaration(n, g, variant, at, i) ==
    LET inner == ChainInner(n, g, i)
        name == inner.name
    IN  CASE at = i /\ variant = "forward" ->
                 TypeDeclaration(ChainField(i),
                     <<TypeApplication(name, inner.type_id, <<>>)>>, <<g[i]>>)
          [] at = i /\ variant = "plain" ->
                 TypeDeclaration(ChainField(i),
                     <<IF i < n THEN inner ELSE TypeApplication(name, "u8", <<>>)>>,
                     <<>>)
          [] at = i /\ variant \in {"array", "tuple"} ->
                 TypeDeclaration(ChainField(i),
                     <<TypeApplication(name, "Wrap", <<>>)>>, <<g[i]>>)
          [] at = i /\ variant = "cycle" ->
                 TypeDeclaration(ChainField(i),
                     <<TypeApplication("inner", ChainId(1),
                                       <<TypeApplication("", g[i], <<>>)>>)>>,
                     <<g[i]>>)
          [] OTHER ->
                 TypeDeclaration(ChainField(i), <<inner>>, <<g[i]>>)

\* the declaration that forwards the generics of level `at` to its component
WrapDeclaration(n, g, variant, at) ==
    LET inner == ChainInner(n, g, at)
    IN  IF variant = "array"
        THEN TypeDeclaration(TF_array_2,
                 <<TypeApplication("__array_element", inner.type_id,
                                   inner.type_arguments)>>, <<>>)
        ELSE TypeDeclaration(TF_tuple,
                 <<TypeApplication("__tuple_element", inner.type_id,
                                   inner.type_arguments),
                   TypeApplication("__tuple_element", "u8", <<>>)>>, <<>>)

TypeTable(n, g, variant, at) ==
    LET Levels == {i \in 1..n : ~(variant = "missing" /\ at = i)}
        Ids == DOMAIN BaseDeclarations
               \cup {ChainId(i) : i \in Levels}
               \cup (IF variant \in {"array", "tuple"} THEN {"Wrap"} ELSE {})
        Level(id) == CHOOSE i \in Levels : ChainId(i) = id
    IN  [id \in Ids |->
            IF id \in DOMAIN BaseDeclarations THEN BaseDeclarations[id]
            ELSE IF id = "Wrap" THEN WrapDeclaration(n, g, variant, at)
            ELSE ChainDeclaration(n, g, variant, at, Level(id))]

\* the shapes of the tables: a chain that departs nowhere is one shape
ChainShapes ==
    UNION {{[n |-> n, g |-> g, variant |-> va[1], at |-> va[2]] :
               g \in [1..n -> ChainGenericIds],
               va \in {w \in Variants \X (1..n) : w[1] = "generic" => w[2] = 1}} :
           n \in 1..MaxChain}

TypeTables == {TypeTable(s.n, s.g, s.variant, s.at) : s \in ChainShapes}

\* the tables whose chain leads back to its first level
CyclicTables ==
    UNION {{TypeTable(n, g, "cycle", at) :
               g \in [1..n -> ChainGenericIds], at \in 1..n} :
           n \in 1..MaxChain}

(***************************************************************************)
(* The calls.  type_lookup is the table of the run.  A call is made from   *)
(* "idle" with inputs drawn from the sets below and leaves its result in   *)
(* the state ("done"); Return drops the result.                            *)
(***************************************************************************)
\* concrete types as resolve builds them for a top-level type argument
U8Type == Type("", TF_u8, <<>>, <<>>)

U16Type == Type("", TF_u16, <<>>, <<>>)

\* the ids an application is made of: every chain level, the wrapper, the
\* vector, placeholders, a primitive
\* the number of requests that can be in flight at once
MaxRequests == 2

ApplicationIds ==
    {ChainId(i) : i \in 1..MaxChain} \cup {"Wrap", "Vec", "gT", "gT2", "u8"}

\* the type arguments an application supplies; "nope" is in no table
TypeArguments ==
    {<<>>,
     <<TypeApplication("", "u16", <<>>)>>,
     <<TypeApplication("", "u8", <<>>), TypeApplication("", "u16", <<>>)>>,
     <<TypeApplication("", "nope", <<>>)>>}

Applications ==
    {TypeApplication("arg", id, args) : id \in ApplicationIds, args \in TypeArguments}

\* inherited generic parameters of a nested call
InheritedBindings ==
    {<< <<"gT", U8Type>> >>,
     << <<"gK", U16Type>> >>,
     << <<"gT", U8Type>>, <<"gT2", U16Type>> >>,
     << <<"gT2", U16Type>>, <<"gT", U8Type>> >>,
     << <<"gK", U8Type>>, <<"gK", U16Type>> >>}

NoApplication == TypeApplication("", "", <<>>)

NoType == Type("", <<>>, <<>>, <<>>)

NoResult == Err("none", "")

VARIABLES
    type_lookup,            \* the Type Table: type id -> TypeDeclaration
    pc,                     \* "idle" or "done"
    op,                     \* the call that was made
    type_application,       \* resolve's application
    parent_generic_params,  \* resolve's inherited generic parameters
    resolved,               \* Result<Type> of resolve
    the_type,               \* the Type handed to ParamType::try_from
    param_type,             \* Result<ParamType>
    resolver_mod,           \* the current_mod of the TypeResolver
    full_application,       \* the FullTypeApplication handed to TypeResolver
    rendered,               \* Result<ResolvedType>
    declarations,           \* the types handed to generate_types
    shared_types,           \* the shared types handed to generate_types
    generated_code,         \* Result<GeneratedCode> of generate_types
    token,                  \* the token handed to ABIEncoder::encode
    encoded,                \* Result<Vec<u8>> of ABIEncoder::encode
    abi_fun,                \* the function handed to expand_fn
    fn_code,                \* Result of expand_fn
    abi_functions,          \* the functions handed to expand_functions
    functions_code,         \* Result of expand_functions
    resolved_type_in,       \* the ResolvedType whose generics are asked for
    used_generics,          \* Vec<GenericType> of ResolvedType::generics
    requests,               \* the derivation requests in flight, by slot
    handler,                \* the CallHandler the caller holds, if any
    provider_ops,           \* the provider operations the last method invoked
    sent,                   \* the transactions sent to the node so far
    response,               \* Result returned by the last fallible method
    params_in               \* the CallParameters handed to call_params

vars == <<type_lookup, pc, op, type_application, parent_generic_params,
          resolved, the_type, param_type, resolver_mod, full_application,
          rendered,
          declarations, shared_types, generated_code, token, encoded,
          abi_fun, fn_code, abi_functions, functions_code,
          resolved_type_in, used_generics, requests,
          handler, provider_ops, sent, response, params_in>>

\* what a call of the resolver, the deriver or the rendered-type resolver uses
typeVars == <<type_application, parent_generic_params, resolved, the_type,
              param_type, resolver_mod, full_application, rendered>>

\* what a call of the code generator uses
codegenVars == <<declarations, shared_types, generated_code>>

\* what a call of the encoder uses
encodeVars == <<token, encoded>>

\* what a call of expand_fn or expand_functions uses
genericsVars == <<resolved_type_in, used_generics>>

expandVars == <<abi_fun, fn_code, abi_functions, functions_code, genericsVars>>

\* what lives across calls: the requests in flight
handlerVars == <<handler, provider_ops, sent, response, params_in>>

liveVars == <<requests, handlerVars>>

callVars == <<encodeVars, expandVars, liveVars>>

\* a slot with no request in it
NoRequest ==
    [pc |-> "idle", type_application |-> NoApplication, the_type |-> NoResult,
     param_type |-> NoResult, again |-> NoResult]

NoFunction == FullABIFunction("", <<>>, NoApplication, <<>>)

Idle ==
    /\ pc = "idle"
    /\ op = "none"
    /\ type_application = NoApplication
    /\ parent_generic_params = <<>>
    /\ resolved = NoResult
    /\ the_type = NoType
    /\ param_type = NoResult
    /\ resolver_mod = TypePath_default
    /\ full_application = NoApplication
    /\ rendered = NoResult
    /\ declarations = <<>>
    /\ shared_types = {}
    /\ generated_code = NoResult
    /\ token = Token_Unit
    /\ encoded = NoResult
    /\ abi_fun = NoFunction
    /\ fn_code = NoResult
    /\ abi_functions = <<>>
    /\ functions_code = NoResult
    /\ resolved_type_in = ResolvedType_Unit
    /\ used_generics = <<>>
    /\ requests = [r \in 1..MaxRequests |-> NoRequest]
    /\ handler = None
    /\ provider_ops = <<>>
    /\ sent = <<>>
    /\ response = NoResult
    /\ params_in = None

Init ==
    /\ type_lookup \in TypeTables
    /\ Idle

\* ParamType::try_from_type_application: Type::try_from, then try_into
TryFromTypeApplication(application) ==
    /\ pc = "idle"
    /\ pc' = "done"
    /\ op' = "try_from"
    /\ type_application' = application
    /\ parent_generic_params' = <<>>
    /\ resolved' = Type_try_from(application, type_lookup)
    /\ the_type' = IF resolved'.ok THEN Unwrap(resolved') ELSE NoType
    /\ param_type' = IF resolved'.ok THEN ParamType_try_from(Unwrap(resolved'))
                     ELSE resolved'
    /\ UNCHANGED <<type_lookup, resolver_mod, full_application, rendered>>
    /\ UNCHANGED <<codegenVars, callVars>>

\* Type::resolve as it is called for a component or a type argument
Resolve(application, generic_params) ==
    /\ pc = "idle"
    /\ pc' = "done"
    /\ op' = "resolve"
    /\ type_application' = application
    /\ parent_generic_params' = generic_params
    /\ resolved' = resolve(application, type_lookup, generic_params, MaxDepth)
    /\ UNCHANGED <<type_lookup, the_type, param_type, resolver_mod,
                   full_application, rendered>>
    /\ UNCHANGED <<codegenVars, callVars>>

\* the caller takes the result
Return ==
    /\ pc = "done"
    /\ pc' = "idle"
    /\ op' = "none"
    /\ type_application' = NoApplication
    /\ parent_generic_params' = <<>>
    /\ resolved' = NoResult
    /\ the_type' = NoType
    /\ param_type' = NoResult
    /\ resolver_mod' = TypePath_default
    /\ full_application' = NoApplication
    /\ rendered' = NoResult
    /\ declarations' = <<>>
    /\ shared_types' = {}
    /\ generated_code' = NoResult
    /\ token' = Token_Unit
    /\ encoded' = NoResult
    /\ abi_fun' = NoFunction
    /\ fn_code' = NoResult
    /\ abi_functions' = <<>>
    /\ functions_code' = NoResult
    /\ resolved_type_in' = ResolvedType_Unit
    /\ used_generics' = <<>>
    /\ UNCHANGED <<type_lookup, liveVars>>

Next ==
    \/ \E application \in Applications : TryFromTypeApplication(application)
    \/ \E application \in Applications, generic_params \in InheritedBindings :
           Resolve(application, generic_params)
    \/ Return

Spec == Init /\ [][Next]_vars

\* the same calls on a table with a cycle
InitCyclic ==
    /\ type_lookup \in CyclicTables
    /\ Idle

SpecCyclic == InitCyclic /\ [][Next]_vars

(***************************************************************************)
(* Derivation and rendering of hand-built inputs, as the unit tests build  *)
(* them (given_type_with_path, given_fn_arg_of_custom_type): any           *)
(* descriptor with any components and generics.                            *)
(***************************************************************************)
Descriptors ==
    {TF_unit, TF_bool, TF_u8, TF_u16, TF_u32, TF_u64, TF_u256, TF_b256,
     TF_str, TF_str_2, TF_array_2, TF_tuple, TF_generic_T,
     TF_raw_untyped_slice, TF_raw_untyped_ptr,
     TF_struct_std_vec_Vec, TF_struct_Vec,
     TF_struct_std_bytes_Bytes, TF_struct_Bytes,
     TF_struct_std_string_String, TF_struct_String,
     TF_struct_std_u128_U128, TF_struct_U128,
     TF_struct_SomeStruct, TF_enum_SomeEnum}

\* sequences over S of length at most n
RECURSIVE SeqsUpTo(_, _)
SeqsUpTo(S, n) ==
    IF n = 0 THEN {<<>>}
    ELSE LET shorter == SeqsUpTo(S, n - 1)
         IN  shorter \cup {Append(q, x) : q \in shorter, x \in S}

\* elements of a hand-built Type: one that derives, one that no matcher
\* recognises, and an array with no element type
ElementTypes ==
    {Type("a", TF_u8, <<>>, <<>>),
     Type("b", TF_raw_untyped_ptr, <<>>, <<>>),
     Type("c", TF_array_2, <<>>, <<>>)}

\* the generics of a hand-built Type: one that derives, one that does not
GenericTypes ==
    {Type("a", TF_u8, <<>>, <<>>),
     Type("b", TF_raw_untyped_ptr, <<>>, <<>>)}

\* named fields and variants that derive: two primitives and a struct
FieldTypes ==
    {Type("a", TF_u8, <<>>, <<>>),
     Type("d", TF_bool, <<>>, <<>>),
     Type("s", TF_struct_SomeStruct, <<>>, <<Type("a", TF_u8, <<>>, <<>>)>>)}

\* structs and enums whose fields, variants and generics all derive
CustomTypes ==
    {Type("", f, generics, components) :
        f \in {TF_struct_SomeStruct, TF_enum_SomeEnum},
        generics \in SeqsUpTo(FieldTypes, MaxComponents),
        components \in SeqsUpTo(FieldTypes, MaxComponents)}

DeriveTypes ==
    {Type("", f, generics, components) :
        f \in Descriptors,
        generics \in SeqsUpTo(GenericTypes, MaxComponents),
        components \in SeqsUpTo(ElementTypes, MaxComponents)}
    \cup CustomTypes

ElementApplications ==
    {FullTypeApplication("a", FullTypeDeclaration(TF_u8, <<>>, <<>>), <<>>),
     FullTypeApplication("b", FullTypeDeclaration(TF_raw_untyped_ptr, <<>>, <<>>), <<>>),
     FullTypeApplication("c", FullTypeDeclaration(TF_array_2, <<>>, <<>>), <<>>)}

\* the type arguments of an application handed to the rendered-type resolver
ArgumentApplications ==
    {FullTypeApplication("a", FullTypeDeclaration(TF_u8, <<>>, <<>>), <<>>)}

FullApplications ==
    {FullTypeApplication("arg", FullTypeDeclaration(f, components, <<>>), arguments) :
        f \in Descriptors,
        components \in SeqsUpTo(ElementApplications, MaxComponents),
        arguments \in SeqsUpTo(ArgumentApplications, MaxComponents)}

\* the modules a resolver is made for
ResolverModules ==
    {TypePath_default,
     TypePath_new(<<"s", "o", "m", "e", "_", "l", "i", "b", "r", "a", "r", "y">>),
     TypePath_new(<<"s", "o", "m", "e", "_", "l", "i", "b", "r", "a", "r", "y", ":", ":", "a", "n", "o", "t", "h", "e", "r", "_", "m", "o", "d">>)}

\* the type arguments of an application of a struct or an enum: a
\* primitive, a struct applied to a primitive, and one with no rendered type
CustomArguments ==
    {FullTypeApplication("", FullTypeDeclaration(TF_u8, <<>>, <<>>), <<>>),
     FullTypeApplication("", FullTypeDeclaration(TF_struct_SomeStruct, <<>>, <<>>),
         <<FullTypeApplication("", FullTypeDeclaration(TF_u8, <<>>, <<>>), <<>>)>>),
     FullTypeApplication("", FullTypeDeclaration(TF_raw_untyped_ptr, <<>>, <<>>), <<>>)}

\* applications of structs and enums: of the root module, of a module, and
\* the vector the SDK provides; with or without a declared type parameter,
\* with or without a component that has no rendered type
CustomApplications ==
    {FullTypeApplication("some_arg", FullTypeDeclaration(f, components, parameters),
                         arguments) :
        f \in {TF_struct_SomeStruct, TF_struct_std_vec_Vec,
               PFX_struct \o <<"s", "o", "m", "e", "_", "l", "i", "b", "r", "a", "r", "y", ":", ":", "a", "n", "o", "t", "h", "e", "r", "_", "m", "o", "d", ":", ":", "S", "o", "m", "e", "S", "t", "r", "u", "c", "t">>,
               PFX_enum \o <<"s", "o", "m", "e", "_", "l", "i", "b", "r", "a", "r", "y", ":", ":", "S", "o", "m", "e", "E", "n", "u", "m">>},
        components \in {<<>>,
            <<FullTypeApplication("p", FullTypeDeclaration(TF_raw_untyped_ptr, <<>>, <<>>),
                                  <<>>)>>},
        parameters \in {<<>>, <<FullTypeDeclaration(TF_generic_T, <<>>, <<>>)>>},
        arguments \in SeqsUpTo(CustomArguments, MaxComponents)}

InitDerive ==
    /\ type_lookup = BaseDeclarations
    /\ Idle

\* ParamType::try_from(&Type)
Derive(input) ==
    /\ pc = "idle"
    /\ pc' = "done"
    /\ op' = "derive"
    /\ the_type' = input
    /\ param_type' = ParamType_try_from(input)
    /\ UNCHANGED <<type_lookup, type_application, parent_generic_params,
                   resolved, resolver_mod, full_application, rendered>>
    /\ UNCHANGED <<codegenVars, callVars>>

\* TypeResolver::new(module).resolve(&application)
Render(module, application) ==
    /\ pc = "idle"
    /\ pc' = "done"
    /\ op' = "render"
    /\ resolver_mod' = module
    /\ full_application' = application
    /\ rendered' = TypeResolver_resolve(module, application)
    /\ UNCHANGED <<type_lookup, type_application, parent_generic_params,
                   resolved, the_type, param_type>>
    /\ UNCHANGED <<codegenVars, callVars>>

NextDerive ==
    \/ \E input \in DeriveTypes : Derive(input)
    \/ \E application \in FullApplications : Render(TypePath_default, application)
    \/ \E module \in ResolverModules, application \in CustomApplications :
           Render(module, application)
    \/ Return

SpecDerive == InitDerive /\ [][NextDerive]_vars

(***************************************************************************)
(* Generation of the custom types: generate_types is handed a list of     *)
(* declarations and the set of the shared ones.                            *)
(***************************************************************************)
U8Application(name) ==
    FullTypeApplication(name, FullTypeDeclaration(TF_u8, <<>>, <<>>), <<>>)

BoolApplication(name) ==
    FullTypeApplication(name, FullTypeDeclaration(TF_bool, <<>>, <<>>), <<>>)

SomeEmptyStruct == FullTypeDeclaration(PFX_struct \o <<"S", "o", "m", "e", "E", "m", "p", "t", "y", "S", "t", "r", "u", "c", "t">>, <<>>, <<>>)

SomeEmptyEnum == FullTypeDeclaration(PFX_enum \o <<"S", "o", "m", "e", "E", "m", "p", "t", "y", "E", "n", "u", "m">>, <<>>, <<>>)

SharedStruct ==
    FullTypeDeclaration(PFX_struct \o <<"s", "o", "m", "e", "_", "s", "h", "a", "r", "e", "d", "_", "l", "i", "b", ":", ":", "S", "h", "a", "r", "e", "d", "S", "t", "r", "u", "c", "t">>, <<>>, <<>>)

\* a struct two modules deep
DeepStruct ==
    FullTypeDeclaration(PFX_struct \o <<"s", "o", "m", "e", "_", "l", "i", "b", "r", "a", "r", "y", ":", ":", "a", "n", "o", "t", "h", "e", "r", "_", "m", "o", "d", ":", ":", "S", "o", "m", "e", "S", "t", "r", "u", "c", "t">>,
                        <<U8Application("x"), BoolApplication("y")>>, <<>>)

\* a struct and an enum of the root module
RootStruct ==
    FullTypeDeclaration(TF_struct_SomeStruct,
                        <<BoolApplication("x"), U8Application("y")>>, <<>>)

RootEnum ==
    FullTypeDeclaration(TF_enum_SomeEnum,
                        <<U8Application("LongIsland"), BoolApplication("MoscowMule")>>,
                        <<>>)

\* a struct with a field that has no rendered type
UnrenderableStruct ==
    FullTypeDeclaration(PFX_struct \o <<"U", "n", "r", "e", "n", "d", "e", "r", "a", "b", "l", "e">>,
        <<FullTypeApplication("p", FullTypeDeclaration(TF_raw_untyped_ptr, <<>>, <<>>),
                              <<>>)>>, <<>>)

\* declarations that get no code: no struct or enum, provided by the SDK,
\* or unused
SkippedDeclarations ==
    {FullTypeDeclaration(TF_u64, <<>>, <<>>),
     FullTypeDeclaration(TF_tuple, <<U8Application("__tuple_element")>>, <<>>),
     FullTypeDeclaration(TF_struct_std_vec_Vec, <<>>, <<>>),
     FullTypeDeclaration(PFX_struct \o <<"R", "a", "w", "V", "e", "c">>, <<>>, <<>>),
     FullTypeDeclaration(PFX_struct \o <<"s", "t", "d", ":", ":", "v", "e", "c", ":", ":", "R", "a", "w", "V", "e", "c">>, <<>>, <<>>),
     FullTypeDeclaration(PFX_struct \o <<"R", "a", "w", "B", "y", "t", "e", "s">>, <<>>, <<>>),
     FullTypeDeclaration(PFX_struct \o <<"s", "t", "d", ":", ":", "b", "y", "t", "e", "s", ":", ":", "R", "a", "w", "B", "y", "t", "e", "s">>, <<>>, <<>>)}

GeneratedDeclarations ==
    {SomeEmptyStruct, SomeEmptyEnum, SharedStruct, DeepStruct, RootStruct,
     RootEnum, UnrenderableStruct}

TypeDeclarations == GeneratedDeclarations \cup SkippedDeclarations

\* the sets of shared types a generation is handed
SharedTypeSets ==
    {{},
     {SharedStruct},
     {SharedStruct, DeepStruct, RootStruct, SomeEmptyEnum},
     TypeDeclarations}

InitGenerate ==
    /\ type_lookup = BaseDeclarations
    /\ Idle

\* generate_types(types, shared_types, no_std)
Generate(types, shared) ==
    /\ pc = "idle"
    /\ pc' = "done"
    /\ op' = "generate"
    /\ declarations' = types
    /\ shared_types' = shared
    /\ generated_code' = generate_types(types, shared)
    /\ UNCHANGED <<type_lookup, typeVars, callVars>>

NextGenerate ==
    \/ \E types \in SeqsUpTo(TypeDeclarations, MaxTypes), shared \in SharedTypeSets :
           Generate(types, shared)
    \/ Return

SpecGenerate == InitGenerate /\ [][NextGenerate]_vars

(***************************************************************************)
(* The calls of the encoder.  The values stay below 2^31; the last of each  *)
(* width has a non-zero byte in every position that fits.                  *)
(***************************************************************************)
MaxFields == 2

LeafTokens ==
    {Token_Unit, Token_Bool(FALSE), Token_Bool(TRUE),
     Token_U8(0), Token_U8(255),
     Token_U16(258),
     Token_U32(5), Token_U32(123), Token_U32(16909060),
     Token_U64(5), Token_U64(16909060)}

StructTokens == {Token_Struct(tokens) : tokens \in SeqsUpTo(LeafTokens, MaxFields)}

Discriminants == {0, 1, 2, 258}

EnumTokens ==
    {Token_Enum(discriminant, payload) :
         discriminant \in Discriminants, payload \in LeafTokens \cup StructTokens}

Tokens == LeafTokens \cup StructTokens \cup EnumTokens

\* ABIEncoder::default().encode(&[value.into_token()])
Encode(value) ==
    /\ pc = "idle"
    /\ pc' = "done"
    /\ op' = "encode"
    /\ token' = value
    /\ encoded' = ABIEncoder_encode(<<value>>)
    /\ UNCHANGED <<type_lookup, typeVars, codegenVars, expandVars, liveVars>>

NextEncode ==
    \/ \E value \in Tokens : Encode(value)
    \/ Return

SpecEncode == InitGenerate /\ [][NextEncode]_vars

(***************************************************************************)
(* The calls of expand_fn: functions with up to MaxInputs inputs and up to *)
(* MaxAttributes attributes.                                               *)
(***************************************************************************)
MaxInputs == 2

MaxAttributes == 2

MyStruct1 ==
    FullTypeDeclaration(PFX_struct \o <<"M", "y", "S", "t", "r", "u", "c", "t", "1">>,
                        <<BoolApplication("x"), U8Application("y")>>, <<>>)

FunctionInputs ==
    {BoolApplication("bimbam"),
     FullTypeApplication("s_1", MyStruct1, <<>>),
     FullTypeApplication("p", FullTypeDeclaration(TF_raw_untyped_ptr, <<>>, <<>>), <<>>)}

FunctionOutputs ==
    {FullTypeApplication("", FullTypeDeclaration(TF_unit, <<>>, <<>>), <<>>),
     FullTypeApplication("stillnotused", MyStruct1, <<>>)}

FunctionAttributes ==
    {Attribute("doc-comment", <<"This is a doc string">>),
     Attribute("doc-comment", <<"This is another doc string">>),
     Attribute("doc-comment", <<>>),
     Attribute("payable", <<>>),
     Attribute("storage", <<"read">>)}

ABIFunctions ==
    {FullABIFunction(name, inputs, output, attributes) :
         name \in {"HelloWorld", "some_abi_funct"},
         inputs \in SeqsUpTo(FunctionInputs, MaxInputs),
         output \in FunctionOutputs,
         attributes \in SeqsUpTo(FunctionAttributes, MaxAttributes)}

\* expand_fn(&abi_fun)
ExpandFn(fun) ==
    /\ pc = "idle"
    /\ pc' = "done"
    /\ op' = "expand_fn"
    /\ abi_fun' = fun
    /\ fn_code' = expand_fn(fun)
    /\ UNCHANGED <<type_lookup, typeVars, codegenVars, encodeVars,
                   abi_functions, functions_code, genericsVars, liveVars>>

NextExpand ==
    \/ \E fun \in ABIFunctions : ExpandFn(fun)
    \/ Return

SpecExpand == InitGenerate /\ [][NextExpand]_vars

(***************************************************************************)
(* Calls of which a part fails: a table with a declaration missing, types  *)
(* with an element that does not derive, declarations and functions that   *)
(* cannot be generated, each next to ones that can.                        *)
(***************************************************************************)
MaxFunctions == 2

\* struct S1<T> { inner: S2<T> } with S2 absent
MissingTable == TypeTable(2, [i \in 1..2 |-> "gT"], "missing", 2)

\* the types whose derivation derives their components or generics
FailingDeriveTypes ==
    {Type("", f, generics, components) :
        f \in {TF_struct_SomeStruct, TF_enum_SomeEnum, TF_array_2, TF_tuple,
               TF_struct_std_vec_Vec},
        generics \in SeqsUpTo(GenericTypes, MaxComponents),
        components \in SeqsUpTo(GenericTypes, MaxComponents)}

FailingDeclarations ==
    {RootStruct, DeepStruct, SomeEmptyEnum, UnrenderableStruct,
     FullTypeDeclaration(TF_u64, <<>>, <<>>)}

\* functions that expand, one with an input that has no rendered type and
\* one with a doc-comment without argument
SomeFunctions ==
    {FullABIFunction("HelloWorld", <<BoolApplication("bimbam")>>,
                     FullTypeApplication("", FullTypeDeclaration(TF_unit, <<>>, <<>>), <<>>),
                     <<Attribute("doc-comment", <<"This is a doc string">>)>>),
     FullABIFunction("some_abi_funct", <<FullTypeApplication("s_1", MyStruct1, <<>>)>>,
                     FullTypeApplication("", MyStruct1, <<>>), <<>>),
     FullABIFunction("no_type",
                     <<FullTypeApplication("p", FullTypeDeclaration(TF_raw_untyped_ptr, <<>>, <<>>), <<>>)>>,
                     FullTypeApplication("", FullTypeDeclaration(TF_unit, <<>>, <<>>), <<>>),
                     <<>>),
     FullABIFunction("no_doc", <<>>,
                     FullTypeApplication("", FullTypeDeclaration(TF_unit, <<>>, <<>>), <<>>),
                     <<Attribute("doc-comment", <<>>)>>)}

\* rendered types: leaves, and arrays, tuples and structs of them
GenericLeaves ==
    {ResolvedType_Unit,
     ResolvedType_Primitive(TypePath_new(<<"u", "8">>)),
     ResolvedType_Generic(GenericType_Named("A")),
     ResolvedType_Generic(GenericType_Named("B")),
     ResolvedType_Generic(GenericType_Constant(10))}

FlatResolvedTypes ==
    GenericLeaves
    \cup {ResolvedType_Array(el, 2) : el \in GenericLeaves}
    \cup {ResolvedType_Tuple(elements) :
              elements \in SeqsUpTo(GenericLeaves, MaxComponents)}
    \cup {ResolvedType_StructOrEnum(TypePath_default, elements) :
              elements \in SeqsUpTo(GenericLeaves, MaxComponents)}

\* the type of the test correctly_extracts_used_generics
NestedExample ==
    ResolvedType_StructOrEnum(TypePath_default,
        <<ResolvedType_Tuple(
              <<ResolvedType_Array(
                    ResolvedType_StructOrEnum(TypePath_default,
                        <<ResolvedType_Generic(GenericType_Named("A")),
                          ResolvedType_Generic(GenericType_Constant(10))>>),
                    2)>>),
          ResolvedType_Generic(GenericType_Named("B"))>>)

NestedElements ==
    {ResolvedType_Generic(GenericType_Named("A")),
     ResolvedType_Array(ResolvedType_Generic(GenericType_Named("B")), 2),
     ResolvedType_Tuple(<<ResolvedType_Generic(GenericType_Named("A")),
                          ResolvedType_Generic(GenericType_Named("A"))>>),
     ResolvedType_StructOrEnum(TypePath_default,
         <<ResolvedType_Generic(GenericType_Named("B")),
           ResolvedType_Generic(GenericType_Constant(10))>>),
     ResolvedType_Unit}

ResolvedTypes ==
    FlatResolvedTypes
    \cup {NestedExample}
    \cup {ResolvedType_Array(el, 2) : el \in NestedElements}
    \cup {ResolvedType_Tuple(elements) :
              elements \in SeqsUpTo(NestedElements, MaxComponents)}
    \cup {ResolvedType_StructOrEnum(TypePath_default, elements) :
              elements \in SeqsUpTo(NestedElements, MaxComponents)}

\* resolved_type.generics()
Generics(resolved_type_arg) ==
    /\ pc = "idle"
    /\ pc' = "done"
    /\ op' = "generics"
    /\ resolved_type_in' = resolved_type_arg
    /\ used_generics' = ResolvedType_generics(resolved_type_arg)
    /\ UNCHANGED <<type_lookup, typeVars, codegenVars, encodeVars, abi_fun,
                   fn_code, abi_functions, functions_code, liveVars>>

InitCalls ==
    /\ type_lookup = MissingTable
    /\ Idle

\* expand_functions(&functions)
ExpandFunctions(functions) ==
    /\ pc = "idle"
    /\ pc' = "done"
    /\ op' = "expand_functions"
    /\ abi_functions' = functions
    /\ functions_code' = expand_functions(functions)
    /\ UNCHANGED <<type_lookup, typeVars, codegenVars, encodeVars, abi_fun,
                   fn_code, genericsVars, liveVars>>

NextCalls ==
    \/ \E application \in Applications, generic_params \in InheritedBindings :
           Resolve(application, generic_params)
    \/ \E input \in FailingDeriveTypes : Derive(input)
    \/ \E types \in SeqsUpTo(FailingDeclarations, MaxTypes),
          shared \in {{}, {RootStruct, UnrenderableStruct}} :
           Generate(types, shared)
    \/ \E functions \in SeqsUpTo(SomeFunctions, MaxFunctions) :
           ExpandFunctions(functions)
    \/ \E resolved_type_arg \in ResolvedTypes : Generics(resolved_type_arg)
    \/ Return

SpecCalls == InitCalls /\ [][NextCalls]_vars

(***************************************************************************)
(* Several callers derive over one Type Table at once.  A request is one   *)
(* call of ParamType::try_from_type_application; its two stages, the       *)
(* resolution (Type::try_from) and the derivation (try_into), are steps    *)
(* that interleave with the steps of the other requests.  The table is     *)
(* borrowed immutably by every request.                                    *)
(***************************************************************************)
RequestTables ==
    {TypeTable(2, [i \in 1..2 |-> "gT"], variant, 1) :
         variant \in {"generic", "plain", "missing"}}

RequestApplications ==
    {TypeApplication("arg", id, args) :
         id \in {ChainId(1), "Vec", "gT"},
         args \in {<<>>, <<TypeApplication("", "u16", <<>>)>>}}

InitRequests ==
    /\ type_lookup \in RequestTables
    /\ Idle

\* a caller enters try_from_type_application(&type_application, &type_lookup)
Request(r, application) ==
    /\ requests[r].pc = "idle"
    /\ requests' = [requests EXCEPT ![r] =
                        [NoRequest EXCEPT !.pc = "resolve",
                                          !.type_application = application]]
    /\ UNCHANGED <<type_lookup, pc, op, typeVars, codegenVars, encodeVars, expandVars,
                   handlerVars>>

\* Type::try_from(type_application, type_lookup)?
RequestResolve(r) ==
    /\ requests[r].pc = "resolve"
    /\ LET result == Type_try_from(requests[r].type_application, type_lookup)
       IN  requests' = [requests EXCEPT ![r] =
                           [@ EXCEPT !.pc = IF result.ok THEN "derive" ELSE "done",
                                     !.the_type = result,
                                     !.param_type = IF result.ok THEN NoResult
                                                    ELSE result]]
    /\ UNCHANGED <<type_lookup, pc, op, typeVars, codegenVars, encodeVars, expandVars,
                   handlerVars>>

\* .try_into()
RequestDerive(r) ==
    /\ requests[r].pc = "derive"
    /\ requests' = [requests EXCEPT ![r] =
                        [@ EXCEPT !.pc = "done",
                                  !.param_type =
                                      ParamType_try_from(Unwrap(requests[r].the_type))]]
    /\ UNCHANGED <<type_lookup, pc, op, typeVars, codegenVars, encodeVars, expandVars,
                   handlerVars>>

\* ParamType::try_from(&the_type) once more, from the same resolved type
RequestDeriveAgain(r) ==
    /\ requests[r].pc = "done"
    /\ requests[r].the_type.ok
    /\ requests[r].again = NoResult
    /\ requests' = [requests EXCEPT ![r] =
                        [@ EXCEPT !.again =
                                      ParamType_try_from(Unwrap(requests[r].the_type))]]
    /\ UNCHANGED <<type_lookup, pc, op, typeVars, codegenVars, encodeVars, expandVars,
                   handlerVars>>

\* the caller takes the result
RequestReturn(r) ==
    /\ requests[r].pc = "done"
    /\ requests' = [requests EXCEPT ![r] = NoRequest]
    /\ UNCHANGED <<type_lookup, pc, op, typeVars, codegenVars, encodeVars, expandVars,
                   handlerVars>>

NextRequests ==
    \/ \E r \in 1..MaxRequests, application \in RequestApplications :
           Request(r, application)
    \/ \E r \in 1..MaxRequests : RequestResolve(r)
    \/ \E r \in 1..MaxRequests : RequestDerive(r)
    \/ \E r \in 1..MaxRequests : RequestDeriveAgain(r)
    \/ \E r \in 1..MaxRequests : RequestReturn(r)

SpecRequests == InitRequests /\ [][NextRequests]_vars

(***************************************************************************)
(* CallHandler: the builder of one contract or script call.  The handler   *)
(* is a value: a builder method consumes it and returns the changed        *)
(* handler, call and submit consume it for good, simulate borrows it       *)
(* mutably.  The node and the account are the environment: where a call    *)
(* fails is an input of the step.                                          *)
(***************************************************************************)
\* the largest amount a caller forwards
MaxAmount == 2

TxPolicies_default == [tip |-> None]

CallParameters(amount) == [amount |-> amount]

CallParameters_default == CallParameters(0)

ContractCall(payable) ==
    [kind |-> "contract", call_parameters |-> CallParameters_default,
     external_contracts |-> <<>>, is_payable |-> payable]

ScriptCall ==
    [kind |-> "script", external_contracts |-> <<>>]

CallHandler_new_contract_call(payable) ==
    [call |-> ContractCall(payable), tx_policies |-> TxPolicies_default,
     cached_tx_id |-> None]

CallHandler_new_script_call ==
    [call |-> ScriptCall, tx_policies |-> TxPolicies_default, cached_tx_id |-> None]

with_contract_ids(self, contract_ids) ==
    [self EXCEPT !.call.external_contracts = contract_ids]

with_tx_policies(self, tx_policies) ==
    [self EXCEPT !.tx_policies = tx_policies]

CallHandler_is_payable(self) == self.call.is_payable

\* the check of call_params left out
call_params_unchecked(self, params) ==
    Ok([self EXCEPT !.call.call_parameters = params])

call_params(self, params) ==
    IF ~CallHandler_is_payable(self) /\ params.amount > 0
    THEN Err("Other", "assets forwarded to non-payable method")
    ELSE Ok([self EXCEPT !.call.call_parameters = params])

\* the transaction is built from the call, the policies and the account
build_tx(self) == [call |-> self.call, tx_policies |-> self.tx_policies]

\* tx.id(chain_id), a hash of the transaction
Transaction_id(tx) == [hash_of |-> tx]

CallResponse(value, receipts, tx_id) ==
    [value |-> value, receipts |-> receipts, tx_id |-> tx_id]

SubmitResponse(tx_id, call_handler) ==
    [tx_id |-> tx_id, call_handler |-> call_handler]

\* a response that does not carry the id
get_response_without_id(self, receipts, fault) ==
    IF fault = "get_response" THEN Err("codec", "")
    ELSE Ok(CallResponse("value", receipts, None))

\* parse_token and from_token, then the response with the cached id
get_response(self, receipts, fault) ==
    IF fault = "get_response" THEN Err("codec", "")
    ELSE Ok(CallResponse("value", receipts, self.cached_tx_id))

\* sending where a dry run is due
always_send(simulate) == "send_transaction_and_await_commit"

\* the provider operation call_or_simulate hands the transaction to
provider_operation(simulate) ==
    IF simulate THEN "dry_run" ELSE "send_transaction_and_await_commit"

\* the transactions a provider operation adds to the chain
provider_effect(operation, tx) == IF operation = "dry_run" THEN <<>> ELSE <<tx>>

\* what a method leaves: the handler, the provider operations it invoked,
\* the transactions it sent and its result
Outcome(self, ops, new_sent, result) ==
    [self |-> self, provider_ops |-> ops, sent |-> new_sent, result |-> result]

\* past the provider operation: the receipts are checked, the response built
call_or_simulate_checked(self, ops, new_sent, fault) ==
    IF fault = "receipts" THEN Outcome(self, ops, new_sent, Err("revert", ""))
    ELSE Outcome(self, ops, new_sent, get_response(self, "receipts", fault))

\* with the transaction built and the provider at hand
call_or_simulate_with(self, tx, operation, fault) ==
    IF fault = "provider"
    THEN Outcome(self, <<[op |-> operation, tx |-> tx]>>, <<>>, Err("provider", ""))
    ELSE call_or_simulate_checked(self, <<[op |-> operation, tx |-> tx]>>,
                                  provider_effect(operation, tx), fault)

\* the id cached only once the provider operation has succeeded
call_or_simulate_caching_late(self, simulate, fault) ==
    IF fault \in {"build_tx", "try_provider"}
    THEN Outcome(self, <<>>, <<>>, Err(fault, ""))
    ELSE call_or_simulate_with(
             IF fault = "provider" THEN self
             ELSE [self EXCEPT !.cached_tx_id = Some(Transaction_id(build_tx(self)))],
             build_tx(self), provider_operation(simulate), fault)

call_or_simulate(self, simulate, fault) ==
    IF fault \in {"build_tx", "try_provider"}
    THEN Outcome(self, <<>>, <<>>, Err(fault, ""))
    ELSE call_or_simulate_with(
             [self EXCEPT !.cached_tx_id = Some(Transaction_id(build_tx(self)))],
             build_tx(self), provider_operation(simulate), fault)

submit(self, fault) ==
    IF fault \in {"build_tx", "try_provider"}
    THEN Outcome(self, <<>>, <<>>, Err(fault, ""))
    ELSE IF fault = "provider"
    THEN Outcome(self, <<[op |-> "send_transaction", tx |-> build_tx(self)]>>, <<>>,
                 Err("provider", ""))
    ELSE Outcome([self EXCEPT !.cached_tx_id = Some(Transaction_id(build_tx(self)))],
                 <<[op |-> "send_transaction", tx |-> build_tx(self)]>>,
                 provider_effect("send_transaction", build_tx(self)),
                 Ok(SubmitResponse(Transaction_id(build_tx(self)),
                        [self EXCEPT !.cached_tx_id =
                                         Some(Transaction_id(build_tx(self)))])))

\* where the environment makes a call fail; "none": nowhere
Faults == {"none", "build_tx", "try_provider", "provider", "receipts", "get_response"}

SubmitFaults == {"none", "build_tx", "try_provider", "provider"}

SomePolicies == {TxPolicies_default, [tip |-> Some(1)]}

SomeContractIds == {<<>>, <<"contract">>}

InitHandler ==
    /\ type_lookup = MissingTable
    /\ Idle

idleVars == <<type_lookup, pc, typeVars, codegenVars, encodeVars, expandVars, requests>>

NewContractCall(payable) ==
    /\ op = "none"
    /\ op' = "new_contract_call"
    /\ handler' = Some(CallHandler_new_contract_call(payable))
    /\ UNCHANGED <<idleVars, provider_ops, sent, response, params_in>>

NewScriptCall ==
    /\ op = "none"
    /\ op' = "new_script_call"
    /\ handler' = Some(CallHandler_new_script_call)
    /\ UNCHANGED <<idleVars, provider_ops, sent, response, params_in>>

WithContractIds(contract_ids) ==
    /\ handler # None
    /\ op' = "with_contract_ids"
    /\ handler' = Some(with_contract_ids(handler[1], contract_ids))
    /\ provider_ops' = <<>>
    /\ UNCHANGED <<idleVars, sent, response, params_in>>

WithTxPolicies(tx_policies) ==
    /\ handler # None
    /\ op' = "with_tx_policies"
    /\ handler' = Some(with_tx_policies(handler[1], tx_policies))
    /\ provider_ops' = <<>>
    /\ UNCHANGED <<idleVars, sent, response, params_in>>

\* call_params(self, params): self is moved in; on Err it is not given back
CallParams(params) ==
    /\ handler # None
    /\ handler[1].call.kind = "contract"
    /\ op' = "call_params"
    /\ params_in' = Some(params)
    /\ response' = call_params(handler[1], params)
    /\ handler' = IF response'.ok THEN Some(Unwrap(response')) ELSE None
    /\ provider_ops' = <<>>
    /\ UNCHANGED <<idleVars, sent>>

\* simulate(&mut self)
Simulate(fault) ==
    /\ handler # None
    /\ op' = "simulate"
    /\ LET outcome == call_or_simulate(handler[1], TRUE, fault)
       IN  /\ handler' = Some(outcome.self)
           /\ provider_ops' = outcome.provider_ops
           /\ sent' = sent \o outcome.sent
           /\ response' = outcome.result
    /\ UNCHANGED <<idleVars, params_in>>

\* call(mut self)
Call(fault) ==
    /\ handler # None
    /\ op' = "call"
    /\ LET outcome == call_or_simulate(handler[1], FALSE, fault)
       IN  /\ handler' = None
           /\ provider_ops' = outcome.provider_ops
           /\ sent' = sent \o outcome.sent
           /\ response' = outcome.result
    /\ UNCHANGED <<idleVars, params_in>>

\* submit(mut self)
Submit(fault) ==
    /\ handler # None
    /\ op' = "submit"
    /\ LET outcome == submit(handler[1], fault)
       IN  /\ handler' = None
           /\ provider_ops' = outcome.provider_ops
           /\ sent' = sent \o outcome.sent
           /\ response' = outcome.result
    /\ UNCHANGED <<idleVars, params_in>>

\* the caller drops what it holds and starts over
Drop ==
    /\ op # "none"
    /\ op' = "none"
    /\ handler' = None
    /\ provider_ops' = <<>>
    /\ sent' = <<>>
    /\ response' = NoResult
    /\ params_in' = None
    /\ UNCHANGED idleVars

NextHandler ==
    \/ \E payable \in BOOLEAN : NewContractCall(payable)
    \/ NewScriptCall
    \/ \E contract_ids \in SomeContractIds : WithContractIds(contract_ids)
    \/ \E tx_policies \in SomePolicies : WithTxPolicies(tx_policies)
    \/ \E amount \in 0..MaxAmount : CallParams(CallParameters(amount))
    \/ \E fault \in Faults : Simulate(fault)
    \/ \E fault \in Faults : Call(fault)
    \/ \E fault \in SubmitFaults : Submit(fault)
    \/ Drop

SpecHandler == InitHandler /\ [][NextHandler]_vars

(***************************************************************************)
(* Properties of the type resolver, checked under Spec.                    *)
(***************************************************************************)
ResolveDone == pc = "done" /\ op \in {"try_from", "resolve"}

TopLevelDone == pc = "done" /\ op = "try_from"

\* the application's declaration is in the table and is no placeholder
AppliesDeclaration ==
    /\ type_application.type_id \in DOMAIN type_lookup
    /\ extract_generic_name(type_lookup[type_application.type_id].type_field) = None

\* the application's declaration is a generic placeholder
AppliesPlaceholder ==
    /\ type_application.type_id \in DOMAIN type_lookup
    /\ extract_generic_name(type_lookup[type_application.type_id].type_field) # None

\* in the scope of parameter G, application c hands G down to a field of
\* type G: c is that field, or a declaration without parameters of its own
\* whose first component does, or a generic declaration that c applies to G
\* and whose first component does for the declaration's own parameter
RECURSIVE CarriesParameter(_, _, _, _)
CarriesParameter(types, c, G, fuel) ==
    /\ fuel > 0
    /\ c.type_id \in DOMAIN types
    /\ LET d == types[c.type_id]
       IN  \/ c.type_id = G /\ extract_generic_name(d.type_field) # None
           \/ /\ extract_generic_name(d.type_field) = None
              /\ d.type_parameters = <<>>
              /\ d.components # <<>>
              /\ CarriesParameter(types, d.components[1], G, fuel - 1)
           \/ /\ Len(d.type_parameters) = 1
              /\ c.type_arguments = <<TypeApplication("", G, <<>>)>>
              /\ d.components # <<>>
              /\ CarriesParameter(types, d.components[1], d.type_parameters[1], fuel - 1)

\* id declares one parameter and heads a chain that passes it on
IsGenericChain(types, id) ==
    /\ id \in DOMAIN types
    /\ Len(types[id].type_parameters) = 1
    /\ types[id].components # <<>>
    /\ CarriesParameter(types, types[id].components[1],
                        types[id].type_parameters[1], MaxDepth)

\* a declaration with no components, no parameters, that is no placeholder
IsConcreteLeaf(types, id) ==
    /\ id \in DOMAIN types
    /\ types[id].components = <<>>
    /\ types[id].type_parameters = <<>>
    /\ extract_generic_name(types[id].type_field) = None

\* down the first components of t every node has the generics list [X],
\* and the innermost field is X
RECURSIVE ChainResolvesTo(_, _)
ChainResolvesTo(t, X) ==
    IF t.components = <<>>
    THEN /\ t.type_field = X.type_field
         /\ t.generic_params = X.generic_params
    ELSE /\ t.generic_params = <<X>>
         /\ ChainResolvesTo(t.components[1], X)

\* C1: resolving Outer<u16> with Outer<T> { inner: Inner<T> } and
\* Inner<K> { val: K } gives Inner the field val: u16 and the generics
\* [u16]; in general, for a chain of nested generic declarations that each
\* pass their parameter on as a type argument, the innermost generic field
\* resolves to the concrete type supplied at the top-level application.
C1_NestedGenericsResolve ==
    (/\ TopLevelDone
     /\ IsGenericChain(type_lookup, type_application.type_id)
     /\ Len(type_application.type_arguments) = 1
     /\ IsConcreteLeaf(type_lookup, type_application.type_arguments[1].type_id))
    => /\ resolved.ok
       /\ ChainResolvesTo(Unwrap(resolved),
              Type("", type_lookup[type_application.type_arguments[1].type_id].type_field,
                   <<>>, <<>>))

\* Outer<u16> resolved where Outer declares gT and Inner declares gK
C1_Witness ==
    /\ TopLevelDone
    /\ type_lookup = TypeTable(2, <<"gT", "gK">>, "generic", 1)
    /\ type_application =
           TypeApplication("arg", "S1", <<TypeApplication("", "u16", <<>>)>>)
    /\ resolved.ok
    /\ Unwrap(resolved).components[1].type_field = ChainField(2)
    /\ Unwrap(resolved).components[1].generic_params = <<U16Type>>
    /\ Unwrap(resolved).components[1].components[1] = Type("val", TF_u16, <<>>, <<>>)

\* the first inherited parameter bound under id, if there is one
BoundIndexes(generic_params, id) ==
    {i \in 1..Len(generic_params) :
        /\ generic_params[i][1] = id
        /\ \A j \in 1..(i - 1) : generic_params[j][1] # id}

\* C2: an application of a generic placeholder resolves to the type bound
\* in the inherited bindings under the application's type id (whatever the
\* placeholder's symbol), unchanged but for its name, which is the
\* application's; so a field of generic type keeps its declared name.
C2_PlaceholderTakesBinding ==
    /\ (ResolveDone /\ AppliesPlaceholder)
       => \A i \in BoundIndexes(parent_generic_params, type_application.type_id) :
              /\ resolved.ok
              /\ Unwrap(resolved).name = type_application.name
              /\ Unwrap(resolved).type_field = parent_generic_params[i][2].type_field
              /\ Unwrap(resolved).components = parent_generic_params[i][2].components
              /\ Unwrap(resolved).generic_params =
                     parent_generic_params[i][2].generic_params
    /\ (ResolveDone /\ AppliesDeclaration /\ resolved.ok)
       => LET d == type_lookup[type_application.type_id]
          IN  /\ Len(Unwrap(resolved).components) = Len(d.components)
              /\ \A i \in 1..Len(d.components) :
                     Unwrap(resolved).components[i].name = d.components[i].name

\* gT2 has the symbol T of gT, which is bound first: gT2's binding is taken
C2_Witness ==
    /\ pc = "done"
    /\ op = "resolve"
    /\ type_application = TypeApplication("arg", "gT2", <<>>)
    /\ parent_generic_params = << <<"gT", U8Type>>, <<"gT2", U16Type>> >>
    /\ type_lookup["gT"].type_field = type_lookup["gT2"].type_field
    /\ resolved = Ok(Type("arg", TF_u16, <<>>, <<>>))

RECURSIVE NoPlaceholder(_)
NoPlaceholder(t) ==
    /\ extract_generic_name(t.type_field) = None
    /\ \A i \in 1..Len(t.components) : NoPlaceholder(t.components[i])
    /\ \A i \in 1..Len(t.generic_params) : NoPlaceholder(t.generic_params[i])

\* C3: a Type that resolve returns for a top-level application (no inherited
\* bindings) has no node, at any depth of its components and generics
\* lists, whose descriptor is a generic placeholder.
C3_NoPlaceholderLeft ==
    (TopLevelDone /\ resolved.ok) => NoPlaceholder(Unwrap(resolved))

\* a top-level resolution that went through placeholders of both symbols
C3_Witness ==
    /\ TopLevelDone
    /\ resolved.ok
    /\ type_lookup = TypeTable(2, <<"gT", "gK">>, "generic", 1)
    /\ type_application.type_id = "S1"
    /\ Unwrap(resolved).components[1].components[1].type_field = TF_u16

\* the call resolved an application of a declaration that has no type
\* parameters of its own and is no placeholder
ForwardingResolved ==
    /\ ResolveDone
    /\ AppliesDeclaration
    /\ type_lookup[type_application.type_id].type_parameters = <<>>
    /\ resolved.ok

\* C4 as stated: a declaration with no type parameters resolves to a type
\* whose generics list is empty, whatever the inherited bindings are.
C4_Original_EmptyGenerics ==
    ForwardingResolved => Unwrap(resolved).generic_params = <<>>

\* C4: a declaration with no type parameters resolves to a type whose
\* generics list has one entry for each inherited binding; it is empty if
\* and only if the inherited bindings are empty.
C4_GenericsEmptyOnlyWithoutBindings ==
    ForwardingResolved =>
        /\ Len(Unwrap(resolved).generic_params) = Len(parent_generic_params)
        /\ (Unwrap(resolved).generic_params = <<>>) <=> (parent_generic_params = <<>>)

\* u8, which declares no parameters, resolved as a field of a type
\* instantiated with two generics
C4_Witness ==
    /\ ForwardingResolved
    /\ op = "resolve"
    /\ type_application.type_id = "u8"
    /\ Len(parent_generic_params) = 2
    /\ Len(Unwrap(resolved).generic_params) = 2

\* C5: a declaration that forwards generics (no type parameters of its
\* own: arrays, tuples, non-generic wrappers) resolves to a type whose
\* generics list is the sequence of the inherited bindings' values, in the
\* same order and of the same length; the inherited bindings reach its
\* components too.
C5_ForwardsInheritedValues ==
    /\ ForwardingResolved =>
           Unwrap(resolved).generic_params =
               [i \in 1..Len(parent_generic_params) |-> parent_generic_params[i][2]]
    /\ ForwardingResolved =>
           \A i \in 1..Len(Unwrap(resolved).components) :
               LET c == type_lookup[type_application.type_id].components[i]
               IN  (/\ c.type_id \in DOMAIN type_lookup
                    /\ type_lookup[c.type_id].type_parameters = <<>>
                    /\ extract_generic_name(type_lookup[c.type_id].type_field) = None)
                   => Unwrap(resolved).components[i].generic_params =
                          Unwrap(resolved).generic_params

\* the array wrapper resolved under two bindings of different types
C5_Witness ==
    /\ ForwardingResolved
    /\ op = "resolve"
    /\ type_application.type_id = "Wrap"
    /\ type_lookup["Wrap"].type_field = TF_array_2
    /\ parent_generic_params = << <<"gT", U8Type>>, <<"gT2", U16Type>> >>
    /\ Unwrap(resolved).generic_params = <<U8Type, U16Type>>

\* the type ids that resolving the application can look up: its own, and
\* where the declaration is no placeholder the ids of its type arguments
\* (looked at when the declaration has type parameters) and components
RECURSIVE ExpandedIds(_, _, _)
ExpandedIds(types, application, fuel) ==
    {application.type_id} \cup
    (IF fuel = 0 \/ application.type_id \notin DOMAIN types THEN {}
     ELSE LET d == types[application.type_id]
          IN  IF extract_generic_name(d.type_field) # None THEN {}
              ELSE UNION ({ExpandedIds(types, d.components[i], fuel - 1) :
                              i \in 1..Len(d.components)}
                          \cup (IF d.type_parameters = <<>> THEN {}
                                ELSE {ExpandedIds(types, application.type_arguments[i],
                                                  fuel - 1) :
                                         i \in 1..Len(application.type_arguments)})))

MissingIds == ExpandedIds(type_lookup, type_application, MaxDepth) \ DOMAIN type_lookup

\* an id that resolving the application can look up names a placeholder
ExpandsPlaceholder ==
    \E id \in ExpandedIds(type_lookup, type_application, MaxDepth) \cap DOMAIN type_lookup :
        extract_generic_name(type_lookup[id].type_field) # None

FirstPlaceholderComponent ==
    LET d == type_lookup[type_application.type_id]
    IN  {i \in 1..Len(d.components) :
            /\ d.components[i].type_id \in DOMAIN type_lookup
            /\ extract_generic_name(type_lookup[d.components[i].type_id].type_field) # None
            /\ \A j \in 1..(i - 1) : IsConcreteLeaf(type_lookup, d.components[j].type_id)}

\* C7: resolve fails with a generic-binding error whenever it reaches a
\* placeholder whose type id has no entry in the inherited bindings; every
\* placeholder reached with empty bindings fails, as does a top-level
\* application without type arguments of a generic struct that has a field
\* of the parameter's type.
C7_UnboundPlaceholderFails ==
    /\ (/\ ResolveDone
        /\ AppliesPlaceholder
        /\ BoundIndexes(parent_generic_params, type_application.type_id) = {})
       => resolved = Err("generic", type_application.type_id)
    /\ (/\ TopLevelDone
        /\ AppliesDeclaration
        /\ type_lookup[type_application.type_id].type_parameters # <<>>
        /\ type_application.type_arguments = <<>>)
       => \A i \in FirstPlaceholderComponent :
              resolved = Err("generic",
                  type_lookup[type_application.type_id].components[i].type_id)

\* S1<T> { val: T } applied at the top level without a type argument
C7_Witness ==
    /\ TopLevelDone
    /\ type_lookup = TypeTable(1, <<"gT">>, "generic", 1)
    /\ type_application = TypeApplication("arg", "S1", <<>>)
    /\ resolved = Err("generic", "gT")

(***************************************************************************)
(* Properties of the derivation of encoding descriptors and of the         *)
(* rendered-type resolver, checked under SpecDerive.                       *)
(***************************************************************************)
DeriveDone == pc = "done" /\ op = "derive"

RenderDone == pc = "done" /\ op = "render"

VecDescriptors == {TF_struct_std_vec_Vec, TF_struct_Vec}

\* the descriptors of the types the SDK provides an encoding for
ProvidedDescriptors ==
    VecDescriptors \cup {TF_struct_std_bytes_Bytes, TF_struct_Bytes,
                         TF_struct_std_string_String, TF_struct_String,
                         TF_struct_std_u128_U128, TF_struct_U128}

\* the matcher recognises the descriptor, whatever the rest of the type is
Recognises(fun, type_field) ==
    CASE fun = "try_primitive" ->
             type_field \in {TF_bool, TF_u8, TF_u16, TF_u32, TF_u64, TF_u256,
                             TF_b256, TF_unit}
      [] fun = "try_array" -> extract_array_len(type_field) # None
      [] fun = "try_str_array" -> extract_str_len(type_field) # None
      [] fun = "try_str_slice" -> type_field = TF_str
      [] fun = "try_tuple" -> has_tuple_format(type_field)
      [] fun = "try_vector" -> type_field \in VecDescriptors
      [] fun = "try_bytes" -> type_field \in {TF_struct_std_bytes_Bytes, TF_struct_Bytes}
      [] fun = "try_std_string" ->
             type_field \in {TF_struct_std_string_String, TF_struct_String}
      [] fun = "try_raw_slice" -> type_field = TF_raw_untyped_slice
      [] fun = "try_enum" -> starts_with(type_field, PFX_enum)
      [] fun = "try_u128" -> type_field \in {TF_struct_std_u128_U128, TF_struct_U128}
      [] fun = "try_struct" -> starts_with(type_field, PFX_struct)

\* the first matchers, in the order of the table, to recognise the descriptor
FirstRecognising(type_field) ==
    {i \in 1..Len(matchers) :
        /\ Recognises(matchers[i], type_field)
        /\ \A j \in 1..(i - 1) : ~Recognises(matchers[j], type_field)}

\* C8: derive tries the matchers in the order primitive, array, fixed-length
\* string, string slice, tuple, vector, bytes, std string, raw slice, enum,
\* U128, struct, and its result is the result of the first matcher that
\* recognises the descriptor: its value, or its failure; so '()' derives to
\* Unit, and the descriptors of Vec, Bytes, String and U128, long or short,
\* never derive to a Struct.
C8_FirstRecognisingMatcherWins ==
    DeriveDone =>
        /\ \A i \in FirstRecognising(the_type.type_field) :
               LET result == apply_matcher(matchers[i], the_type)
               IN  IF result.ok THEN param_type = Ok(Unwrap(result)[1])
                   ELSE ~param_type.ok
        /\ the_type.type_field = TF_unit => param_type = Ok(ParamType("Unit"))
        /\ the_type.type_field \in ProvidedDescriptors =>
               ~(param_type.ok /\ Unwrap(param_type).tag = "Struct")

\* C9: a Vec descriptor with exactly one generic G derives to
\* Vector(derive(G)) whatever its components are; with no generic or with
\* two or more, derive fails with the shape-mismatch error whatever its
\* components are.
C9_VectorNeedsOneGeneric ==
    (DeriveDone /\ the_type.type_field \in VecDescriptors) =>
        /\ (Len(the_type.generic_params) = 1
            /\ ParamType_try_from(the_type.generic_params[1]).ok)
           => param_type =
                  Ok(Vector(Unwrap(ParamType_try_from(the_type.generic_params[1]))))
        /\ Len(the_type.generic_params) # 1
           => (~param_type.ok /\ param_type.kind = "vector")

ArrayDescriptor(type_field) == extract_array_len(type_field) # None

\* C10: a type whose descriptor matches '[_; N]' derives to
\* Array(derive(c), N) when it has exactly one component c, and derive
\* fails when it has no component or more than one; the rendered-type
\* resolver likewise gives the array of its one resolved component and
\* fails otherwise.
C10_ArrayNeedsOneComponent ==
    /\ (DeriveDone /\ ArrayDescriptor(the_type.type_field)) =>
           IF Len(the_type.components) = 1
           THEN LET c == ParamType_try_from(the_type.components[1])
                IN  IF c.ok
                    THEN param_type =
                             Ok(Array(Unwrap(c),
                                      extract_array_len(the_type.type_field)[1]))
                    ELSE ~param_type.ok
           ELSE ~param_type.ok
    /\ (RenderDone /\ ArrayDescriptor(full_application.type_decl.type_field)) =>
           LET components == full_application.type_decl.components
           IN  IF Len(components) = 1
               THEN LET c == TypeResolver_resolve(TypePath_default, components[1])
                    IN  IF c.ok
                        THEN rendered =
                                 Ok(ResolvedType_Array(Unwrap(c),
                                        extract_array_len(
                                            full_application.type_decl.type_field)[1]))
                        ELSE ~rendered.ok
               ELSE ~rendered.ok

\* an array of two element types was handed to derive, which failed
C10_Witness ==
    /\ DeriveDone
    /\ the_type.type_field = TF_array_2
    /\ Len(the_type.components) = 2
    /\ the_type.components[1].type_field = TF_u8
    /\ the_type.components[2].type_field = TF_u8
    /\ ~param_type.ok

\* every entry of the list derives
AllDerive(coll) == \A i \in 1..Len(coll) : ParamType_try_from(coll[i]).ok

\* the derived entries of the list, in its order
Derived(coll) == [i \in 1..Len(coll) |-> Unwrap(ParamType_try_from(coll[i]))]

\* the derived entries paired with the entries' names, in the list's order
NamedDerived(coll) ==
    [i \in 1..Len(coll) |-> <<coll[i].name, Unwrap(ParamType_try_from(coll[i]))>>]

\* the descriptor without its first n characters
AfterPrefix(type_field, n) == SubSeq(type_field, n + 1, Len(type_field))

PrimitiveTags ==
    {<<TF_unit, "Unit">>, <<TF_bool, "Bool">>, <<TF_u8, "U8">>, <<TF_u16, "U16">>,
     <<TF_u32, "U32">>, <<TF_u64, "U64">>, <<TF_u256, "U256">>, <<TF_b256, "B256">>,
     <<TF_str, "StringSlice">>}

\* C12: derive maps '()', 'bool', 'u8', 'u16', 'u32', 'u64', 'u256', 'b256'
\* and 'str' to Unit, Bool, U8, U16, U32, U64, U256, B256 and StringSlice,
\* and 'str[N]' to StringArray(N), whatever the components and the generics
\* of the type are.
C12_PrimitivesIgnoreStructure ==
    DeriveDone =>
        /\ \A p \in PrimitiveTags :
               the_type.type_field = p[1] => param_type = Ok([tag |-> p[2]])
        /\ extract_str_len(the_type.type_field) # None =>
               param_type = Ok([tag |-> "StringArray",
                                len |-> extract_str_len(the_type.type_field)[1]])
        /\ the_type.type_field = TF_str_2 =>
               (param_type.ok /\ Unwrap(param_type).len = 2)

\* u64 derived from a type that has two components, one of which does not
\* derive, and a generic
C12_Witness ==
    /\ DeriveDone
    /\ the_type.type_field = TF_u64
    /\ Len(the_type.components) = 2
    /\ the_type.components[1].type_field = TF_raw_untyped_ptr
    /\ the_type.generic_params # <<>>
    /\ param_type = Ok(ParamType("U64"))

(***************************************************************************)
(* Properties of generate_types, checked under SpecGenerate.               *)
(***************************************************************************)
GenerateDone == pc = "done" /\ op = "generate"

IsEnumDeclaration(d) == starts_with(d.type_field, PFX_enum)

IsStructDeclaration(d) == starts_with(d.type_field, PFX_struct)

\* the path a struct or enum descriptor names, as its parts
DeclaredPath(d) ==
    SplitPath(IF IsStructDeclaration(d)
              THEN SubSeq(d.type_field, Len(PFX_struct) + 1, Len(d.type_field))
              ELSE SubSeq(d.type_field, Len(PFX_enum) + 1, Len(d.type_field)),
              <<>>)

\* the declaration is a struct or enum that the SDK neither provides nor
\* keeps to itself
Eligible(d) ==
    /\ IsEnumDeclaration(d) \/ IsStructDeclaration(d)
    /\ DeclaredPath(d) \notin {<<<<"s", "t", "d">>, <<"v", "e", "c">>, <<"V", "e", "c">>>>,
                               <<<<"R", "a", "w", "V", "e", "c">>>>, <<<<"R", "a", "w", "B", "y", "t", "e", "s">>>>,
                               <<<<"s", "t", "d">>, <<"v", "e", "c">>, <<"R", "a", "w", "V", "e", "c">>>>,
                               <<<<"s", "t", "d">>, <<"b", "y", "t", "e", "s">>, <<"R", "a", "w", "B", "y", "t", "e", "s">>>>}

\* the declarations of the call whose definition is to be generated
Defined ==
    {i \in 1..Len(declarations) :
        Eligible(declarations[i]) /\ declarations[i] \notin shared_types}

\* C13: generating the definition of an enum with no variants fails with
\* an error and no code is returned, while a struct with no fields is
\* generated, with a constructor that takes no arguments.
C13_EmptyEnumFailsEmptyStructDoesNot ==
    GenerateDone =>
        /\ \A i \in Defined :
               (IsEnumDeclaration(declarations[i]) /\ declarations[i].components = <<>>)
               => /\ ~generated_code.ok
                  /\ generated_code.val = <<>>
                  /\ (\A j \in Defined : declarations[j] # UnrenderableStruct)
                     => generated_code.kind = "enum"
        /\ (\A i \in Defined : /\ IsStructDeclaration(declarations[i])
                               /\ declarations[i].components = <<>>)
           => /\ generated_code.ok
              /\ Len(Unwrap(generated_code)) >= Cardinality(Defined)
        /\ generated_code.ok =>
               \A i \in Defined :
                   (IsStructDeclaration(declarations[i])
                    /\ declarations[i].components = <<>>)
                   => \E k \in 1..Len(Unwrap(generated_code)) :
                          LET code == Unwrap(generated_code)[k]
                          IN  /\ code.kind = "struct"
                              /\ code.mod \o <<code.name>> = DeclaredPath(declarations[i])
                              /\ code.fields = <<>>
                              /\ code.constructor = Some(<<>>)

\* the empty struct was generated, then the empty enum failed the call
C13_Witness ==
    /\ GenerateDone
    /\ declarations = <<SomeEmptyStruct, SomeEmptyEnum>>
    /\ shared_types = {}
    /\ generated_code = Err("enum", SomeEmptyEnum.type_field)

\* the declarations of the call that are structs or enums to generate
EligibleIndexes == {i \in 1..Len(declarations) : Eligible(declarations[i])}

\* the code generated for the eligible declaration at index i: the
\* generated items follow the order of the declarations
CodeOf(i) ==
    Unwrap(generated_code)[Cardinality({j \in EligibleIndexes : j <= i})]

\* the module path of a declaration: its path without the type's name
ParentOf(d) == SubSeq(DeclaredPath(d), 1, Len(DeclaredPath(d)) - 1)

\* one 'super' per segment
Supers(n) == [i \in 1..n |-> <<"s", "u", "p", "e", "r">>]

SharedTypesPath(d) == <<<<"s", "u", "p", "e", "r">>, <<"s", "h", "a", "r", "e", "d", "_", "t", "y", "p", "e", "s">>>> \o DeclaredPath(d)

\* the re-export of declaration d climbs with the given prefix
IsReexport(code, d, prefix) ==
    /\ code.kind = "reexport"
    /\ code.mod = ParentOf(d)
    /\ code.path = Some([parts |-> prefix \o SharedTypesPath(d), is_absolute |-> FALSE])
    /\ code.fields = <<>>
    /\ code.constructor = None

\* C14 as stated: each eligible shared declaration gets exactly one
\* re-export, in its own module, of the path made of one 'super' per
\* segment of its parent module path, then super::shared_types, then the
\* declaration's full path; no struct or enum body is generated for it.
C14_Original_SupersOnly ==
    (GenerateDone /\ generated_code.ok) =>
        /\ Len(Unwrap(generated_code)) = Cardinality(EligibleIndexes)
        /\ \A i \in EligibleIndexes :
               declarations[i] \in shared_types
               => IsReexport(CodeOf(i), declarations[i],
                             Supers(Len(ParentOf(declarations[i]))))

\* C14: each eligible shared declaration gets exactly one re-export, in its
\* own module and without a struct or enum body; for a declaration inside a
\* module the path is one 'super' per segment of its parent module path,
\* then super::shared_types, then its full path; for a declaration of the
\* root module the path is self::super::shared_types::<its name>.
C14_ReexportPath ==
    (GenerateDone /\ generated_code.ok) =>
        /\ Len(Unwrap(generated_code)) = Cardinality(EligibleIndexes)
        /\ \A i \in EligibleIndexes :
               declarations[i] \in shared_types
               => IsReexport(CodeOf(i), declarations[i],
                             IF ParentOf(declarations[i]) = <<>> THEN <<<<"s", "e", "l", "f">>>>
                             ELSE Supers(Len(ParentOf(declarations[i]))))

\* a shared struct two modules deep and a shared struct of the root module
C14_Witness ==
    /\ GenerateDone
    /\ declarations = <<DeepStruct, RootStruct>>
    /\ {DeepStruct, RootStruct} \subseteq shared_types
    /\ generated_code.ok
    /\ Unwrap(generated_code)[1].path[1].parts =
           <<<<"s", "u", "p", "e", "r">>, <<"s", "u", "p", "e", "r">>, <<"s", "u", "p", "e", "r">>, <<"s", "h", "a", "r", "e", "d", "_", "t", "y", "p", "e", "s">>,
             <<"s", "o", "m", "e", "_", "l", "i", "b", "r", "a", "r", "y">>, <<"a", "n", "o", "t", "h", "e", "r", "_", "m", "o", "d">>, <<"S", "o", "m", "e", "S", "t", "r", "u", "c", "t">>>>
    /\ Unwrap(generated_code)[2].path[1].parts =
           <<<<"s", "e", "l", "f">>, <<"s", "u", "p", "e", "r">>, <<"s", "h", "a", "r", "e", "d", "_", "t", "y", "p", "e", "s">>, <<"S", "o", "m", "e", "S", "t", "r", "u", "c", "t">>>>

\* the generated item is the definition or the re-export of declaration d
IsCodeFor(code, d, shared) ==
    /\ code.mod \o <<code.name>> = DeclaredPath(d)
    /\ code.kind = IF d \in shared THEN "reexport"
                   ELSE IF IsStructDeclaration(d) THEN "struct" ELSE "enum"

\* C15: generate_types emits nothing for a declaration that is no struct or
\* enum, that the SDK provides, or that is on the denylist (RawVec,
\* RawBytes, std::vec::RawVec, std::bytes::RawBytes), whether or not it is
\* in shared_types; every other struct or enum declaration yields exactly
\* one item, its re-export if it is shared and its definition if not, in
\* the order of the declarations.
C15_SkippedDeclarationsEmitNothing ==
    GenerateDone =>
        /\ EligibleIndexes = {} => generated_code = Ok(<<>>)
        /\ generated_code.ok =>
               /\ Len(Unwrap(generated_code)) = Cardinality(EligibleIndexes)
               /\ \A i \in EligibleIndexes :
                      IsCodeFor(CodeOf(i), declarations[i], shared_types)
               /\ \A k \in 1..Len(Unwrap(generated_code)) :
                      \A d \in SkippedDeclarations :
                          IsStructDeclaration(d) =>
                              Unwrap(generated_code)[k].mod
                                  \o <<Unwrap(generated_code)[k].name>> # DeclaredPath(d)

\* RawVec and the struct of the root module are both shared: only the
\* struct is re-exported
C15_Witness ==
    /\ GenerateDone
    /\ declarations = <<FullTypeDeclaration(PFX_struct \o <<"R", "a", "w", "V", "e", "c">>, <<>>, <<>>),
                        RootStruct>>
    /\ shared_types = TypeDeclarations
    /\ generated_code.ok
    /\ Len(Unwrap(generated_code)) = 1
    /\ Unwrap(generated_code)[1].kind = "reexport"
    /\ Unwrap(generated_code)[1].name = <<"S", "o", "m", "e", "S", "t", "r", "u", "c", "t">>

(***************************************************************************)
(* Properties of the encoder, checked under SpecEncode.                    *)
(***************************************************************************)
EncodeDone == pc = "done" /\ op = "encode"

\* the number a sequence of bytes denotes, most significant byte first
RECURSIVE BigEndianValue(_)
BigEndianValue(bytes) ==
    IF bytes = <<>> THEN 0
    ELSE 256 * BigEndianValue(SubSeq(bytes, 1, Len(bytes) - 1)) + bytes[Len(bytes)]

\* the declared width of a scalar, in bytes
DeclaredWidth(t) ==
    CASE t.tag = "Unit" -> 0
      [] t.tag = "Bool" -> 1
      [] t.tag = "U8"   -> 1
      [] t.tag = "U16"  -> 2
      [] t.tag = "U32"  -> 4
      [] t.tag = "U64"  -> 8

IsBytes(bytes) == \A i \in 1..Len(bytes) : bytes[i] \in 0..255

EncodesScalar(t, bytes) ==
    /\ Len(bytes) = DeclaredWidth(t)
    /\ IsBytes(bytes)
    /\ IF t.tag = "Bool" THEN bytes = <<IF t.flag THEN 1 ELSE 0>>
       ELSE BigEndianValue(bytes) = t.num

\* the bytes before field i of a struct of scalars
RECURSIVE FieldOffset(_, _)
FieldOffset(fields, i) ==
    IF i = 1 THEN 0
    ELSE FieldOffset(fields, i - 1) + DeclaredWidth(fields[i - 1])

EncodesStruct(t, bytes) ==
    /\ Len(bytes) = FieldOffset(t.tokens, Len(t.tokens) + 1)
    /\ \A i \in 1..Len(t.tokens) :
           EncodesScalar(t.tokens[i],
                         SubSeq(bytes, FieldOffset(t.tokens, i) + 1,
                                FieldOffset(t.tokens, i + 1)))

EncodesPayload(t, bytes) ==
    IF t.tag = "Struct" THEN EncodesStruct(t, bytes) ELSE EncodesScalar(t, bytes)

\* SomeEnum::V2(SomeStruct { a: 123, b: false })
ExampleToken == Token_Enum(1, Token_Struct(<<Token_U32(123), Token_Bool(FALSE)>>))

ExampleBytes == <<0, 0, 0, 0, 0, 0, 0, 1, 0, 0, 0, 123, 0>>

\* C16: an enum value is encoded as its variant index in 8 big-endian
\* bytes followed by the encoding of its payload; unsigned integers are
\* big-endian in their declared width (a u32 in 4 bytes), a bool is one
\* byte, the fields of a struct follow one another without padding;
\* SomeEnum::V2(SomeStruct { a: 123u32, b: false }) encodes to the 13 bytes
\* 00 00 00 00 00 00 00 01 00 00 00 7B 00.
C16_EnumIsIndexThenPayload ==
    EncodeDone =>
        /\ encoded.ok
        /\ IF token.tag = "Enum"
           THEN LET bytes == Unwrap(encoded)
                IN  /\ Len(bytes) >= 8
                    /\ IsBytes(bytes)
                    /\ BigEndianValue(SubSeq(bytes, 1, 8)) = token.num
                    /\ EncodesPayload(token.tokens[1], SubSeq(bytes, 9, Len(bytes)))
           ELSE EncodesPayload(token, Unwrap(encoded))
        /\ token = ExampleToken => encoded = Ok(ExampleBytes)

C16_Witness ==
    /\ EncodeDone
    /\ token = ExampleToken
    /\ encoded = Ok(ExampleBytes)

(***************************************************************************)
(* Properties of expand_fn, checked under SpecExpand.                      *)
(***************************************************************************)
ExpandDone == pc = "done" /\ op = "expand_fn"

DocIndexes == {i \in 1..Len(abi_fun.attributes) : abi_fun.attributes[i].name = "doc-comment"}

\* the position of attribute i among the doc-comment attributes
DocRank(i) == Cardinality({j \in DocIndexes : j <= i})

RenderedAs(application, type) ==
    TypeResolver_resolve(TypePath_default, application) = Ok(type)

\* C17: the wrapper of a function has one doc line per doc-comment
\* attribute, in order; one parameter and one argument token per input, in
\* order; the selector of the function's declared name; the payability of
\* its attributes (false without a payable attribute); and the return type
\* CallHandler<A, ContractCall, R> with R the rendered output type.
C17_WrapperPreservesOrderAndIdentity ==
    (ExpandDone /\ fn_code.ok) =>
        LET code == Unwrap(fn_code)
        IN  /\ Len(code.docs) = Cardinality(DocIndexes)
            /\ \A i \in DocIndexes :
                   code.docs[DocRank(i)] = abi_fun.attributes[i].arguments[1]
            /\ code.name = abi_fun.name
            /\ Len(code.args) = Len(abi_fun.inputs)
            /\ Len(code.body.arg_tokens) = Len(abi_fun.inputs)
            /\ \A i \in 1..Len(abi_fun.inputs) :
                   /\ code.args[i].name = abi_fun.inputs[i].name
                   /\ RenderedAs(abi_fun.inputs[i], code.args[i].type)
                   /\ code.body.arg_tokens[i] = abi_fun.inputs[i].name
            /\ code.body.fn_selector = abi_fun.name
            /\ code.body.is_payable =
                   (\E i \in 1..Len(abi_fun.attributes) :
                        abi_fun.attributes[i].name = "payable")
            /\ code.output_type.handler = "CallHandler"
            /\ code.output_type.account = "A"
            /\ code.output_type.call = "ContractCall"
            /\ RenderedAs(abi_fun.output, code.output_type.output)

\* a payable function with a doc string and two inputs
C17_Witness ==
    /\ ExpandDone
    /\ fn_code.ok
    /\ abi_fun.attributes = <<Attribute("doc-comment", <<"This is a doc string">>),
                              Attribute("payable", <<>>)>>
    /\ Len(abi_fun.inputs) = 2
    /\ abi_fun.inputs[1] # abi_fun.inputs[2]
    /\ Unwrap(fn_code).docs = <<"This is a doc string">>
    /\ Unwrap(fn_code).body.is_payable

(***************************************************************************)
(* Properties of the rendered-type resolver, checked under SpecDerive.      *)
(***************************************************************************)
RenderedField == full_application.type_decl.type_field

\* the type at a path, without generics
PathOnly(r, path) ==
    /\ r.kind \in {"Primitive", "StructOrEnum"}
    /\ r.path = TypePath_new(path)
    /\ r.kind = "StructOrEnum" => r.generics = <<>>

\* C18: whatever the components and the type arguments, the rendered-type
\* resolver maps bool, u8, u16, u32 and u64 to ::core::primitive::<name>,
\* '()' to the unit type, b256 to ::fuels::types::Bits256, u256 to
\* ::fuels::types::U256, 'struct std::u128::U128' and 'struct U128' to
\* ::core::primitive::u128, and 'str[N]' to
\* ::fuels::types::SizedAsciiString<N>.
C18_BuiltInsRenderToFixedPaths ==
    RenderDone =>
        /\ RenderedField = TF_unit => rendered = Ok([kind |-> "Unit"])
        /\ RenderedField = TF_bool =>
               rendered.ok /\ PathOnly(Unwrap(rendered), <<":", ":", "c", "o", "r", "e", ":", ":", "p", "r", "i", "m", "i", "t", "i", "v", "e", ":", ":", "b", "o", "o", "l">>)
        /\ RenderedField = TF_u8 =>
               rendered.ok /\ PathOnly(Unwrap(rendered), <<":", ":", "c", "o", "r", "e", ":", ":", "p", "r", "i", "m", "i", "t", "i", "v", "e", ":", ":", "u", "8">>)
        /\ RenderedField = TF_u16 =>
               rendered.ok /\ PathOnly(Unwrap(rendered), <<":", ":", "c", "o", "r", "e", ":", ":", "p", "r", "i", "m", "i", "t", "i", "v", "e", ":", ":", "u", "1", "6">>)
        /\ RenderedField = TF_u32 =>
               rendered.ok /\ PathOnly(Unwrap(rendered), <<":", ":", "c", "o", "r", "e", ":", ":", "p", "r", "i", "m", "i", "t", "i", "v", "e", ":", ":", "u", "3", "2">>)
        /\ RenderedField = TF_u64 =>
               rendered.ok /\ PathOnly(Unwrap(rendered), <<":", ":", "c", "o", "r", "e", ":", ":", "p", "r", "i", "m", "i", "t", "i", "v", "e", ":", ":", "u", "6", "4">>)
        /\ RenderedField = TF_b256 =>
               rendered.ok /\ PathOnly(Unwrap(rendered), <<":", ":", "f", "u", "e", "l", "s", ":", ":", "t", "y", "p", "e", "s", ":", ":", "B", "i", "t", "s", "2", "5", "6">>)
        /\ RenderedField = TF_u256 =>
               rendered.ok /\ PathOnly(Unwrap(rendered), <<":", ":", "f", "u", "e", "l", "s", ":", ":", "t", "y", "p", "e", "s", ":", ":", "U", "2", "5", "6">>)
        /\ RenderedField \in {TF_struct_std_u128_U128, TF_struct_U128} =>
               rendered.ok /\ PathOnly(Unwrap(rendered), <<":", ":", "c", "o", "r", "e", ":", ":", "p", "r", "i", "m", "i", "t", "i", "v", "e", ":", ":", "u", "1", "2", "8">>)
        /\ RenderedField = TF_str_2 =>
               /\ rendered.ok
               /\ Unwrap(rendered).kind = "StructOrEnum"
               /\ Unwrap(rendered).path = TypePath_new(<<":", ":", "f", "u", "e", "l", "s", ":", ":", "t", "y", "p", "e", "s", ":", ":", "S", "i", "z", "e", "d", "A", "s", "c", "i", "i", "S", "t", "r", "i", "n", "g">>)
               /\ Unwrap(rendered).generics =
                      <<[kind |-> "Generic", generic |-> GenericType_Constant(2)]>>

\* 'struct U128' applied with components and type arguments
C18_Witness ==
    /\ RenderDone
    /\ RenderedField = TF_struct_U128
    /\ full_application.type_decl.components # <<>>
    /\ full_application.type_arguments # <<>>
    /\ rendered.ok
    /\ Unwrap(rendered).path = TypePath_new(<<":", ":", "c", "o", "r", "e", ":", ":", "p", "r", "i", "m", "i", "t", "i", "v", "e", ":", ":", "u", "1", "2", "8">>)

\* the module an application was rendered for
RenderedMod == resolver_mod.parts

\* the descriptor is a struct or an enum that no earlier resolver takes
IsCustomApplication ==
    /\ \/ starts_with(RenderedField, PFX_struct)
       \/ starts_with(RenderedField, PFX_enum)
    /\ RenderedField \notin {TF_struct_std_u128_U128, TF_struct_U128}

\* the path the declaration of the rendered application was declared under
RenderedDeclaredPath ==
    TypePath_new(IF starts_with(RenderedField, PFX_struct)
                 THEN strip_prefix(RenderedField, PFX_struct)
                 ELSE strip_prefix(RenderedField, PFX_enum))

\* the module path reached from `at` by the segments of a relative path:
\* self stays, super leaves the module, a name enters it
RECURSIVE Walk(_, _)
Walk(at, segments) ==
    IF segments = <<>> THEN at
    ELSE IF Head(segments) = <<"s", "e", "l", "f">> THEN Walk(at, Tail(segments))
    ELSE IF Head(segments) = <<"s", "u", "p", "e", "r">>
         THEN IF at = <<>> THEN << <<"!">> >>
              ELSE Walk(SubSeq(at, 1, Len(at) - 1), Tail(segments))
    ELSE Walk(Append(at, Head(segments)), Tail(segments))

ArgumentsRender ==
    \A i \in 1..Len(full_application.type_arguments) :
        TypeResolver_resolve(resolver_mod, full_application.type_arguments[i]).ok

\* C19: the rendered type of a struct or enum application has the SDK's
\* host path when the declaration's path is in the lookup of SDK-provided
\* types, and otherwise a path that leads from the resolver's current
\* module to the declaration; its generics are the rendered type arguments
\* of the application, in order (none when the application has none, also
\* when the declaration declares type parameters); the components are not
\* rendered.
C19_CustomTypePathAndGenerics ==
    (RenderDone /\ IsCustomApplication) =>
        IF ~ArgumentsRender THEN ~rendered.ok
        ELSE /\ rendered.ok
             /\ Unwrap(rendered).kind = "StructOrEnum"
             /\ LET host == sdk_provided_custom_types_lookup(RenderedDeclaredPath)
                    path == Unwrap(rendered).path
                IN  IF host # None THEN path = host[1]
                    ELSE /\ ~path.is_absolute
                         /\ Walk(RenderedMod, path.parts) = RenderedDeclaredPath.parts
             /\ Len(Unwrap(rendered).generics) = Len(full_application.type_arguments)
             /\ \A i \in 1..Len(full_application.type_arguments) :
                    TypeResolver_resolve(resolver_mod, full_application.type_arguments[i])
                        = Ok(Unwrap(rendered).generics[i])

\* a struct of another module, declared with a type parameter and with a
\* component that has no rendered type, applied to two different arguments
C19_Witness ==
    /\ RenderDone
    /\ RenderedField = PFX_struct \o <<"s", "o", "m", "e", "_", "l", "i", "b", "r", "a", "r", "y", ":", ":", "a", "n", "o", "t", "h", "e", "r", "_", "m", "o", "d", ":", ":", "S", "o", "m", "e", "S", "t", "r", "u", "c", "t">>
    /\ resolver_mod = TypePath_new(<<"s", "o", "m", "e", "_", "l", "i", "b", "r", "a", "r", "y">>)
    /\ full_application.type_decl.components # <<>>
    /\ full_application.type_decl.type_parameters # <<>>
    /\ Len(full_application.type_arguments) = 2
    /\ full_application.type_arguments[1] # full_application.type_arguments[2]
    /\ rendered.ok
    /\ Unwrap(rendered).path.parts = <<<<"s", "e", "l", "f">>, <<"a", "n", "o", "t", "h", "e", "r", "_", "m", "o", "d">>, <<"S", "o", "m", "e", "S", "t", "r", "u", "c", "t">>>>
    /\ Len(Unwrap(rendered).generics) = 2

(***************************************************************************)
(* Termination of Type::resolve, checked under SpecCyclic.                 *)
(***************************************************************************)
\* C20: Type::resolve returns on every table: with the resolved type, with
\* a lookup or generic-binding failure, or, when the type graph has a
\* cycle, with a cycle-detected error; it never recurses without bound.
C20_ResolveReturnsOnEveryTable ==
    ResolveDone =>
        \/ resolved.ok
        \/ resolved.kind \in {"lookup", "generic", "cycle"}

(***************************************************************************)
(* No partial success, checked under SpecCalls.                            *)
(***************************************************************************)
ExpandFunctionsDone == pc = "done" /\ op = "expand_functions"

\* a failed call carries the error and nothing else
OnlyError(result) == ~result.ok /\ result.val = <<>> /\ result.kind # "none"

\* resolving a type argument or a component of the resolved application fails
ResolvePartFails ==
    /\ get_declaration(type_lookup, type_application.type_id) # None
    /\ LET type_declaration == get_declaration(type_lookup, type_application.type_id)[1]
           bindings == determine_generics_for_type(type_application, type_lookup,
                           type_declaration, parent_generic_params, MaxDepth)
       IN  /\ ~is_generic(type_declaration)
           /\ \/ ~bindings.ok
              \/ \E i \in 1..Len(type_declaration.components) :
                     ~resolve(type_declaration.components[i], type_lookup,
                              Unwrap(bindings), MaxDepth).ok

\* the elements of the_type that its derivation derives
DerivedParts ==
    IF the_type.type_field \in {TF_array_2, TF_tuple} THEN the_type.components
    ELSE IF the_type.type_field = TF_struct_std_vec_Vec THEN the_type.generic_params
    ELSE the_type.components \o the_type.generic_params

DerivePartFails ==
    \E i \in 1..Len(DerivedParts) : ~ParamType_try_from(DerivedParts[i]).ok

GeneratePartFails ==
    \E i \in 1..Len(declarations) :
        /\ ~should_skip_codegen(declarations[i])
        /\ ~generate_type(declarations[i], shared_types).ok

ExpandPartFails ==
    \E i \in 1..Len(abi_functions) : ~expand_fn(abi_functions[i]).ok

\* C21: there is no partial success.  When resolving a component (or a type
\* argument) fails, resolve returns only the error; when deriving an element
\* fails, derive returns only an error; when the generation of one
\* declaration fails, generate_types returns only the error and none of the
\* code of the other declarations; when the expansion of one function
\* fails, expand_functions returns only the error.
C21_NoPartialSuccess ==
    /\ (ResolveDone /\ op = "resolve" /\ ResolvePartFails) => OnlyError(resolved)
    /\ (DeriveDone /\ DerivePartFails) => OnlyError(param_type)
    /\ (GenerateDone /\ GeneratePartFails) => OnlyError(generated_code)
    /\ (ExpandFunctionsDone /\ ExpandPartFails) => OnlyError(functions_code)

\* the second of two functions fails to expand after the first has expanded
C21_Witness ==
    /\ ExpandFunctionsDone
    /\ Len(abi_functions) = 2
    /\ expand_fn(abi_functions[1]).ok
    /\ ~expand_fn(abi_functions[2]).ok
    /\ OnlyError(functions_code)

\* C22: a failure during derivation is surfaced to the caller as it is: when
\* the first matcher to recognise the descriptor fails (an array without
\* exactly one component, a vector without exactly one generic, a struct
\* field or enum variant that does not derive), derive returns that very
\* failure and the later matchers are not tried.
C22_MatcherFailureIsSurfaced ==
    DeriveDone =>
        \A i \in FirstRecognising(the_type.type_field) :
            ~apply_matcher(matchers[i], the_type).ok
                => param_type = apply_matcher(matchers[i], the_type)

(***************************************************************************)
(* Purity, checked under SpecRequests.                                     *)
(***************************************************************************)
RequestsAreIsolated ==
    \A r \in 1..MaxRequests :
        /\ requests[r].pc = "done" =>
               requests[r].param_type =
                   try_from_type_application(requests[r].type_application, type_lookup)
        /\ requests[r].again # NoResult =>
               requests[r].again = requests[r].param_type

BuilderMethods == {"with_contract_ids", "with_tx_policies", "call_params"}

Constructors == {"new_contract_call", "new_script_call"}

\* the id was the id of a transaction that has been sent
Submitted(tx_id) == \E i \in 1..Len(sent) : Transaction_id(sent[i]) = tx_id

\* a constructor leaves cached_tx_id None
CreatedWithoutId ==
    op' \in Constructors => handler'[1].cached_tx_id = None

\* a builder method leaves cached_tx_id as it was
BuilderKeepsId ==
    (op' \in BuilderMethods /\ handler' # None) =>
        handler'[1].cached_tx_id = handler[1].cached_tx_id

\* simulate failed before it had the transaction and the provider
FailedEarly(result) == ~result.ok /\ result.kind \in {"build_tx", "try_provider"}

\* simulate caches the id of the transaction it built, sent or not
SimulateCachesBuiltId ==
    op' = "simulate" =>
        IF FailedEarly(response')
        THEN handler'[1].cached_tx_id = handler[1].cached_tx_id
        ELSE handler'[1].cached_tx_id = Some(Transaction_id(build_tx(handler[1])))

\* submit hands back the handler with the id of the transaction it sent
SubmitCachesSentId ==
    (op' = "submit" /\ response'.ok) =>
        /\ sent' = Append(sent, build_tx(handler[1]))
        /\ Unwrap(response').tx_id = Transaction_id(build_tx(handler[1]))
        /\ Unwrap(response').call_handler.cached_tx_id = Some(Unwrap(response').tx_id)

SimulateOnlyDryRuns ==
    op' = "simulate" =>
        /\ sent' = sent
        /\ \A i \in 1..Len(provider_ops') :
               /\ provider_ops'[i].op = "dry_run"
               /\ provider_ops'[i].tx = build_tx(handler[1])

\* a transaction is sent by call or by submit only
OnlyCallAndSubmitSend ==
    Len(sent') > Len(sent) => op' \in {"call", "submit"}

\* C25: simulate never modifies the state of the blockchain.  Whatever the
\* state of the handler and however many times simulate is called, the only
\* provider operation it invokes with the built transaction is a dry run
\* and it sends no transaction; only call and submit send one.
C25_SimulateSendsNothing ==
    [][SimulateOnlyDryRuns /\ OnlyCallAndSubmitSend]_vars

\* a simulate of a handler with policies of its own succeeded with its dry
\* run, and nothing has been sent
C25_Witness ==
    /\ op = "simulate"
    /\ response.ok
    /\ Len(provider_ops) = 1
    /\ provider_ops[1].op = "dry_run"
    /\ handler[1].tx_policies # TxPolicies_default
    /\ handler[1].cached_tx_id = Some(Transaction_id(provider_ops[1].tx))
    /\ sent = <<>>

(***************************************************************************)
(* The generic parameters of a declaration with type parameters, checked   *)
(* under Spec.                                                             *)
(***************************************************************************)
\* resolve was called on a declaration that has type parameters of its own
AppliesParametrised ==
    /\ ResolveDone
    /\ type_application.type_id \in DOMAIN type_lookup
    /\ ~is_generic(type_lookup[type_application.type_id])
    /\ type_lookup[type_application.type_id].type_parameters # <<>>

DeclaredParameters == type_lookup[type_application.type_id].type_parameters

\* the generic parameters under which the components are resolved
BindingsUsed ==
    determine_generics_for_type(type_application, type_lookup,
                                type_lookup[type_application.type_id],
                                parent_generic_params, MaxDepth)

Smaller(a, b) == IF a <= b THEN a ELSE b

\* the declared ids paired with the given types, as far as both reach
Paired(types) ==
    [i \in 1..Smaller(Len(DeclaredParameters), Len(types)) |->
        <<DeclaredParameters[i], types[i]>>]

InheritedTypes ==
    [i \in 1..Len(parent_generic_params) |-> parent_generic_params[i][2]]

ResolvedArguments ==
    resolve_all(type_application.type_arguments, type_lookup,
                parent_generic_params, MaxDepth - 1)

\* the failure of the call is the failure of one of its components
ComponentFailed ==
    \E i \in 1..Len(type_lookup[type_application.type_id].components) :
        resolved = resolve(type_lookup[type_application.type_id].components[i],
                           type_lookup, Unwrap(BindingsUsed), MaxDepth - 1)

\* C28: resolve does not fail because the number of type arguments differs
\* from the number of declared type parameters.  The declared ids are
\* paired positionally with the resolved arguments, or with the inherited
\* values when there is no argument; there are as many pairs as the shorter
\* list has entries, the other arguments are dropped and the other
\* parameters stay unbound; a failure of the call is the failure of a
\* component.
C28_CountMismatchDoesNotFail ==
    (AppliesParametrised /\ ResolvedArguments.ok) =>
        /\ BindingsUsed =
               Ok(Paired(IF type_application.type_arguments # <<>>
                         THEN Unwrap(ResolvedArguments)
                         ELSE InheritedTypes))
        /\ ~resolved.ok => ComponentFailed

\* S1<T> applied to two arguments: the second is dropped
C28_Witness ==
    /\ AppliesParametrised
    /\ DeclaredParameters = <<"gT">>
    /\ type_application.type_id = "S1"
    /\ Len(type_application.type_arguments) = 2
    /\ Len(Unwrap(ResolvedArguments)) = 2
    /\ Unwrap(ResolvedArguments)[1].type_field = TF_u8
    /\ BindingsUsed = Ok(<< <<"gT", Unwrap(ResolvedArguments)[1]>> >>)
    /\ resolved.ok
    /\ Unwrap(resolved).generic_params = <<Unwrap(ResolvedArguments)[1]>>

(***************************************************************************)
(* The generics of a rendered type, checked under SpecCalls.                *)
(***************************************************************************)
GenericsDone == pc = "done" /\ op = "generics"

\* the generics of the elements, one element after the other
RECURSIVE GenericsOfEach(_)
GenericsOfEach(elements) ==
    IF elements = <<>> THEN <<>>
    ELSE ResolvedType_generics(Head(elements)) \o GenericsOfEach(Tail(elements))

\* how many Generic nodes the type has
RECURSIVE CountGenerics(_)
RECURSIVE CountGenericsOfEach(_)
CountGenericsOfEach(elements) ==
    IF elements = <<>> THEN 0
    ELSE CountGenerics(Head(elements)) + CountGenericsOfEach(Tail(elements))

CountGenerics(t) ==
    CASE t.kind = "StructOrEnum" -> CountGenericsOfEach(t.generics)
      [] t.kind = "Tuple" -> CountGenericsOfEach(t.elements)
      [] t.kind = "Array" -> CountGenerics(t.el)
      [] t.kind = "Generic" -> 1
      [] OTHER -> 0

\* C27: ResolvedType::generics lists the generic parameters of a rendered
\* type depth first, left to right: for StructOrEnum and Tuple the results
\* for the elements one after the other, for Array the result for its
\* element, for Generic the one generic (named or constant), nothing for
\* Unit and Primitive; a generic that occurs twice is listed twice.
C27_GenericsDepthFirst ==
    GenericsDone =>
        /\ resolved_type_in.kind = "StructOrEnum" =>
               used_generics = GenericsOfEach(resolved_type_in.generics)
        /\ resolved_type_in.kind = "Tuple" =>
               used_generics = GenericsOfEach(resolved_type_in.elements)
        /\ resolved_type_in.kind = "Array" =>
               used_generics = ResolvedType_generics(resolved_type_in.el)
        /\ resolved_type_in.kind = "Generic" =>
               used_generics = <<resolved_type_in.generic>>
        /\ resolved_type_in.kind \in {"Unit", "Primitive"} => used_generics = <<>>
        /\ Len(used_generics) = CountGenerics(resolved_type_in)
        /\ resolved_type_in = NestedExample =>
               used_generics = <<GenericType_Named("A"), GenericType_Constant(10),
                                 GenericType_Named("B")>>

\* a tuple of a pair (A, A) and an array of B: A is listed twice, before B
C27_Witness ==
    /\ GenericsDone
    /\ resolved_type_in =
           ResolvedType_Tuple(
               <<ResolvedType_Tuple(<<ResolvedType_Generic(GenericType_Named("A")),
                                      ResolvedType_Generic(GenericType_Named("A"))>>),
                 ResolvedType_Array(ResolvedType_Generic(GenericType_Named("B")), 2)>>)
    /\ used_generics = <<GenericType_Named("A"), GenericType_Named("A"),
                         GenericType_Named("B")>>

NonPayableError == Err("Other", "assets forwarded to non-payable method")

\* call_params refuses a positive amount on a non-payable handler, and then
\* gives no handler back; every other call stores the parameters
CallParamsChecksAmount ==
    op' = "call_params" =>
        IF ~handler[1].call.is_payable /\ params_in'[1].amount > 0
        THEN /\ response' = NonPayableError
             /\ handler' = None
        ELSE /\ response'.ok
             /\ handler' = Some(Unwrap(response'))
             /\ handler'[1].call.call_parameters = params_in'[1]
             /\ handler'[1].call.is_payable = handler[1].call.is_payable

\* the call parameters of a non-payable handler forward nothing
NonPayableForwardsNothing ==
    (handler # None /\ handler[1].call.kind = "contract"
        /\ ~handler[1].call.is_payable)
        => handler[1].call.call_parameters.amount = 0

\* C29: on a contract handler created with is_payable = false,
\* call_params(p) returns the error 'assets forwarded to non-payable method'
\* exactly when p.amount() > 0 and stores p otherwise; so whatever builder
\* methods are called, the call parameters of a non-payable handler never
\* carry a positive amount; a payable handler accepts every p.
C29_NonPayableNeverForwards ==
    /\ [][CallParamsChecksAmount]_vars
    /\ []NonPayableForwardsNothing

\* a non-payable handler was handed a positive amount
C29_Witness ==
    /\ op = "call_params"
    /\ params_in # None
    /\ params_in[1].amount > 0
    /\ response = NonPayableError
    /\ handler = None

\* where a failing simulate leaves cached_tx_id
FailingSimulateAndId ==
    (op' = "simulate" /\ ~response'.ok) =>
        IF response'.kind \in {"build_tx", "try_provider"}
        THEN handler'[1].cached_tx_id = handler[1].cached_tx_id
        ELSE /\ response'.kind \in {"provider", "revert", "codec"}
             /\ handler'[1].cached_tx_id = Some(Transaction_id(build_tx(handler[1])))

\* the response of a successful simulate or call carries the id of the
\* transaction that was built for it
ResponseCarriesBuiltId ==
    (op' \in {"simulate", "call"} /\ response'.ok) =>
        /\ Unwrap(response').tx_id = Some(Transaction_id(build_tx(handler[1])))
        /\ Len(provider_ops') = 1
        /\ provider_ops'[1].tx = build_tx(handler[1])
        /\ op' = "simulate" => handler'[1].cached_tx_id = Unwrap(response').tx_id

====
